---- MODULE Spec2Model ----
(***************************************************************************)
(* Model of the data engine of the Rusticos key-value server:             *)
(*   - entities/ttl_hash_map.rs : TtlHashMap (store, ttls, last_access)    *)
(*   - service/redis.rs         : Redis::execute and its *_method handlers *)
(*                                                                         *)
(* Time is a discrete clock `now` counted in ticks, TicksPerSec ticks to   *)
(* the second.  Every command reads the clock once: SystemTime::now() has  *)
(* the same value at every call made while one command is executed.       *)
(* Strings are sequences of one-character strings, so that concatenation   *)
(* (append) and decimal conversion (to_string, parse) are computed.        *)
(***************************************************************************)
EXTENDS Integers, Sequences, FiniteSets, TLC

\* now  : the clock, in ticks since UNIX_EPOCH
\* db   : Redis.db, the keyspace
\* cmd  : the command execute is returning from, Idle between two commands
\* resp : what execute returns for cmd
\* old  : the keyspace as it was when execute was called with cmd
\* fs   : the snapshot file, its bytes or absent
\* subscribers : Redis.subscribers, for each channel the senders registered
\* sinks  : for each channel made by subscribe, the messages sent on it
\* closed : the channels whose receiver has been dropped
\* old_broker : subscribers, sinks, closed and vec_senders as they were when
\*              execute was called with cmd
\* vec_senders : Redis.vec_senders, the senders of the monitors
\* adapter : the clients of the executor: the commands they have submitted,
\*           the queue the executor drains and the responses it gave
VARIABLES now, db, cmd, resp, old, fs, subscribers, sinks, closed, old_broker,
          vec_senders, adapter

vars ==
    <<now, db, cmd, resp, old, fs, subscribers, sinks, closed, old_broker,
      vec_senders, adapter>>

(***************************************************************************)
(* Bounds of the model.                                                    *)
(***************************************************************************)
TicksPerSec == 2
MaxTime == 2
MaxListLen == 2
MaxStrLen == 2
MaxAbsInt == 2
PairMaxLen == 1
LremMaxLen == 3

Keys == {"k1"}
PairKeys == {"k1", "k2"}
Elems == {<<"a">>, <<"b">>}
StrInputs == {<<"a">>, <<"1">>}

(***************************************************************************)
(* Option<T>                                                               *)
(***************************************************************************)
None == [some |-> FALSE]
Some(x) == [some |-> TRUE, val |-> x]

(***************************************************************************)
(* RedisElement and Response.                                              *)
(***************************************************************************)
Str(s) == [type |-> "string", s |-> s]
List(l) == [type |-> "list", l |-> l]
Set(m) == [type |-> "set", m |-> m]
Nil == [type |-> "nil"]

Normal(re) == [kind |-> "Normal", re |-> re]
Error(msg) == [kind |-> "Error", msg |-> msg]
Panic == [kind |-> "Panic"]

WRONGTYPE_MSG == "WRONGTYPE Operation against a key holding the wrong kind of value"
OUT_OF_RANGE_MSG == "ERR value is not an integer or out of range"
WRONGTYPE_SET_MSG == "WRONGTYPE A hashset data type expected"

(***************************************************************************)
(* Decimal conversion: usize::to_string, i32::to_string, str::parse::<i32> *)
(***************************************************************************)
Digits == <<"0", "1", "2", "3", "4", "5", "6", "7", "8", "9">>

RECURSIVE usize_to_string(_)
usize_to_string(n) ==
    IF n < 10 THEN <<Digits[n + 1]>>
    ELSE usize_to_string(n \div 10) \o <<Digits[(n % 10) + 1]>>

\* The range of i32.
I32_MAX == 2147483647
I32_MIN == (0 - I32_MAX) - 1

i32_to_string(n) ==
    IF n = I32_MIN
    THEN <<"-">> \o usize_to_string(I32_MAX \div 10) \o <<Digits[(I32_MAX % 10) + 2]>>
    ELSE IF n < 0 THEN <<"-">> \o usize_to_string(0 - n) ELSE usize_to_string(n)

IsDigit(c) == \E i \in 1..10 : Digits[i] = c
DigitVal(c) == (CHOOSE i \in 1..10 : Digits[i] = c) - 1

\* The digit loop of from_str: the value is accumulated upwards for a
\* positive number and downwards for a negative one, and every step is
\* checked against the range of i32 (checked_mul, checked_add / checked_sub).
RECURSIVE digits_value(_, _, _)
digits_value(s, negative, result) ==
    IF s = <<>> THEN Some(result)
    ELSE LET d == DigitVal(Head(s))
         IN  IF negative
             THEN IF result < 0 - (I32_MAX \div 10) \/ result * 10 < I32_MIN + d
                  THEN None
                  ELSE digits_value(Tail(s), negative, result * 10 - d)
             ELSE IF result > I32_MAX \div 10 \/ result * 10 > I32_MAX - d
                  THEN None
                  ELSE digits_value(Tail(s), negative, result * 10 + d)

\* <i32 as FromStr>::from_str: optional sign, then one or more digits, the
\* value within the range of i32.
parse_i32(s) ==
    LET body == IF s # <<>> /\ s[1] \in {"+", "-"} THEN Tail(s) ELSE s
    IN  IF body = <<>> \/ \E i \in 1..Len(body) : ~IsDigit(body[i])
        THEN None
        ELSE digits_value(body, s[1] = "-", 0)

\* A u32 is written hi * 2^31 + lo, hi in {0, 1} and lo in 0..I32_MAX.
U32(hi, lo) == [hi |-> hi, lo |-> lo]

\* u32 as i32: the values above i32::MAX wrap to the negatives.
as_i32(n) == IF n.hi = 0 THEN n.lo ELSE (n.lo - I32_MAX) - 1

\* Arithmetic overflow panics in a build with overflow checks (debug) and
\* wraps in one without (release).
Builds == {"debug", "release"}

\* a + b in i32: [panic |-> TRUE] or [panic |-> FALSE, val |-> the sum].
add_i32(a, b, build) ==
    IF b >= 0 /\ a > I32_MAX - b
    THEN IF build = "debug" THEN [panic |-> TRUE]
         ELSE [panic |-> FALSE, val |-> ((a - I32_MAX) - 1) + ((b - I32_MAX) - 1)]
    ELSE IF b < 0 /\ a < I32_MIN - b
    THEN IF build = "debug" THEN [panic |-> TRUE]
         ELSE [panic |-> FALSE, val |-> ((a + I32_MAX) + 1) + ((b + I32_MAX) + 1)]
    ELSE [panic |-> FALSE, val |-> a + b]

\* -a in i32.
neg_i32(a, build) ==
    IF a = I32_MIN
    THEN IF build = "debug" THEN [panic |-> TRUE] ELSE [panic |-> FALSE, val |-> I32_MIN]
    ELSE [panic |-> FALSE, val |-> 0 - a]

S_Ok == <<"O", "k">>
S_OK == <<"O", "K">>

(***************************************************************************)
(* HashMap helpers.                                                        *)
(***************************************************************************)
MapRemove(f, k) == [x \in (DOMAIN f) \ {k} |-> f[x]]
MapInsert(f, k, v) == [x \in (DOMAIN f) \cup {k} |-> IF x = k THEN v ELSE f[x]]
MapGet(f, k) == IF k \in DOMAIN f THEN Some(f[k]) ELSE None
EmptyMap == [x \in {} |-> 0]

(***************************************************************************)
(* TtlHashMap.  Every operation takes the map m and the clock reading t    *)
(* and returns [m |-> the map afterwards, ret |-> the returned value].     *)
(***************************************************************************)
TtlHashMap_new == [store |-> EmptyMap, ttls |-> EmptyMap, last_access |-> EmptyMap]

\* expired with the tie broken the other way: a deadline equal to the clock
\* still counts as live.
expired_strict(m, t, key) == key \in DOMAIN m.ttls /\ m.ttls[key] < t

\* ttl.elapsed().is_ok(): the deadline is not later than the clock.
expired(m, t, key) == key \in DOMAIN m.ttls /\ m.ttls[key] <= t

\* remove, were it to leave the last access of the key behind.
remove_keeping_last_access(m, key) ==
    [m |-> [store |-> MapRemove(m.store, key),
            ttls |-> MapRemove(m.ttls, key),
            last_access |-> m.last_access],
     ret |-> MapGet(m.store, key)]

remove(m, key) ==
    [m |-> [store |-> MapRemove(m.store, key),
            ttls |-> MapRemove(m.ttls, key),
            last_access |-> MapRemove(m.last_access, key)],
     ret |-> MapGet(m.store, key)]

contains_key(m, t, key) ==
    IF key \in DOMAIN m.store
    THEN IF expired(m, t, key)
         THEN [m |-> remove(m, key).m, ret |-> FALSE]
         ELSE [m |-> m, ret |-> TRUE]
    ELSE [m |-> m, ret |-> FALSE]

update_last_access(m, t, key) ==
    LET c == contains_key(m, t, key)
    IN  IF ~c.ret THEN [m |-> c.m, ret |-> None]
        ELSE [m |-> [c.m EXCEPT !.last_access = MapInsert(c.m.last_access, key, t)],
              ret |-> IF key \in DOMAIN c.m.last_access
                      THEN Some(IF t >= c.m.last_access[key]
                                THEN t - c.m.last_access[key] ELSE 0)
                      ELSE None]

\* SystemTime::UNIX_EPOCH is instant 0.
UNIX_EPOCH == 0

set_ttl_absolute(m, t, key, ttl) ==
    LET c == contains_key(m, t, key)
    IN  IF ~c.ret THEN [m |-> c.m, ret |-> None]
        ELSE [m |-> [c.m EXCEPT !.ttls = MapInsert(c.m.ttls, key, ttl)],
              ret |-> Some(IF key \in DOMAIN c.m.ttls THEN c.m.ttls[key] ELSE UNIX_EPOCH)]

\* set_ttl_relative storing the duration as if it were an instant.
set_ttl_relative_from_epoch(m, t, key, duration) ==
    LET c == contains_key(m, t, key)
    IN  IF ~c.ret THEN [m |-> c.m, ret |-> None]
        ELSE [m |-> [c.m EXCEPT !.ttls = MapInsert(c.m.ttls, key, UNIX_EPOCH + duration)],
              ret |-> Some(IF key \in DOMAIN c.m.ttls THEN c.m.ttls[key] ELSE UNIX_EPOCH)]

set_ttl_relative(m, t, key, duration) ==
    LET c == contains_key(m, t, key)
    IN  IF ~c.ret THEN [m |-> c.m, ret |-> None]
        ELSE [m |-> [c.m EXCEPT !.ttls = MapInsert(c.m.ttls, key, t + duration)],
              ret |-> Some(IF key \in DOMAIN c.m.ttls THEN c.m.ttls[key] ELSE UNIX_EPOCH)]

\* delete_ttl without the expiry check.
delete_ttl_unchecked(m, t, key) ==
    [m |-> [m EXCEPT !.ttls = MapRemove(m.ttls, key)], ret |-> MapGet(m.ttls, key)]

delete_ttl(m, t, key) ==
    IF expired(m, t, key)
    THEN [m |-> remove(m, key).m, ret |-> None]
    ELSE [m |-> [m EXCEPT !.ttls = MapRemove(m.ttls, key)], ret |-> MapGet(m.ttls, key)]

\* Duration left until the deadline, in ticks; 0 for a key without deadline.
get_ttl(m, t, key) ==
    LET c == contains_key(m, t, key)
    IN  IF ~c.ret THEN [m |-> c.m, ret |-> None]
        ELSE [m |-> c.m,
              ret |-> Some(IF key \in DOMAIN c.m.ttls
                           THEN (IF c.m.ttls[key] >= t THEN c.m.ttls[key] - t ELSE 0)
                           ELSE 0)]

len(m) == Cardinality(DOMAIN m.store)

\* insert that overwrites the value and keeps the deadline.
insert_keeping_ttl(m, t, key, value) ==
    [store |-> MapInsert(m.store, key, value),
     ttls |-> m.ttls,
     last_access |-> MapInsert(m.last_access, key, t)]

insert(m, t, key, value) ==
    LET r == remove(m, key).m
    IN  [store |-> MapInsert(r.store, key, value),
         ttls |-> r.ttls,
         last_access |-> MapInsert(r.last_access, key, t)]

\* get and get_mut: the expiry check, the last-access update, the lookup.
get(m, t, key) ==
    IF expired(m, t, key)
    THEN [m |-> remove(m, key).m, ret |-> None]
    ELSE LET u == update_last_access(m, t, key)
         IN  [m |-> u.m, ret |-> MapGet(u.m.store, key)]

get_mut(m, t, key) == get(m, t, key)

(***************************************************************************)
(* Redis: the *_method handlers.  Each takes the keyspace d and the clock  *)
(* reading t and returns [db |-> keyspace afterwards, resp |-> response].  *)
(* Result<Re, String> of the inner helpers is [ok, val] or [ok, err].      *)
(***************************************************************************)
Ok(x) == [ok |-> TRUE, val |-> x]
Err(e) == [ok |-> FALSE, err |-> e]

get_method(d, t, key) ==
    LET g == get(d, t, key)
    IN  [db |-> g.m,
         res |-> IF g.ret.some
                 THEN IF g.ret.val.type = "string" THEN Ok(g.ret.val)
                      ELSE Err(WRONGTYPE_MSG)
                 ELSE Ok(Nil)]

strlen_method(d, t, key) ==
    LET g == get(d, t, key)
    IN  [db |-> g.m,
         resp |-> IF g.ret.some
                  THEN IF g.ret.val.type = "string"
                       THEN Normal(Str(usize_to_string(Len(g.ret.val.s))))
                       ELSE Error(WRONGTYPE_MSG)
                  ELSE Normal(Str(usize_to_string(0)))]

\* Returns the keyspace only: the returned text is always "Ok".
set_method(d, t, key, value) == insert(d, t, key, Str(value))

\* getset, were it to answer the value it stores.
getset_method_answering_new(d, t, key, value) ==
    LET g == get_method(d, t, key)
    IN  IF g.res.ok
        THEN [db |-> set_method(g.db, t, key, value), resp |-> Normal(Str(value))]
        ELSE [db |-> g.db, resp |-> Error(g.res.err)]

getset_method(d, t, key, value) ==
    LET g == get_method(d, t, key)
    IN  IF g.res.ok
        THEN [db |-> set_method(g.db, t, key, value), resp |-> Normal(g.res.val)]
        ELSE [db |-> g.db, resp |-> Error(g.res.err)]

\* The Err arm of the outer match takes the keys that hold a list or a set:
\* its WRONGTYPE arm under Ok is never reached.
incrby_method(d, t, key, increment, build) ==
    LET g == get_method(d, t, key)
    IN  IF g.res.ok
        THEN IF g.res.val.type = "string"
             THEN LET my_int == parse_i32(g.res.val.s)
                  IN  IF ~my_int.some
                      THEN [db |-> g.db, resp |-> Error(OUT_OF_RANGE_MSG)]
                      ELSE LET sum == add_i32(my_int.val, increment, build)
                           IN  IF sum.panic THEN [db |-> g.db, resp |-> Panic]
                               ELSE [db |-> set_method(g.db, t, key, i32_to_string(sum.val)),
                                     resp |-> Normal(Str(S_Ok))]
             ELSE IF g.res.val.type = "nil"
             THEN [db |-> set_method(g.db, t, key, i32_to_string(increment)),
                   resp |-> Normal(Str(S_Ok))]
             ELSE [db |-> g.db, resp |-> Error(WRONGTYPE_MSG)]
        ELSE [db |-> set_method(g.db, t, key, i32_to_string(increment)),
              resp |-> Normal(Str(S_Ok))]

\* Command::Decrby: incrby_method(key, -(decrement as i32)).
decrby(d, t, key, decrement, build) ==
    LET negated == neg_i32(as_i32(decrement), build)
    IN  IF negated.panic THEN [db |-> d, resp |-> Panic]
        ELSE incrby_method(d, t, key, negated.val, build)

RECURSIVE mset_loop(_, _, _)
mset_loop(d, t, key_values) ==
    IF key_values = <<>> THEN d
    ELSE mset_loop(set_method(d, t, key_values[1][1], key_values[1][2]), t,
                   Tail(key_values))

mset_method(d, t, key_values) ==
    [db |-> mset_loop(d, t, key_values), resp |-> Normal(Str(S_Ok))]

\* Result<Re, String>, as get_method.
getdel_method(d, t, key) ==
    LET g == get_method(d, t, key)
    IN  IF g.res.ok
        THEN IF g.res.val.type = "string"
             THEN [db |-> remove(g.db, key).m, res |-> Ok(g.res.val)]
             ELSE IF g.res.val.type = "nil"
             THEN [db |-> g.db, res |-> Ok(g.res.val)]
             ELSE [db |-> g.db, res |-> Err(WRONGTYPE_MSG)]
        ELSE [db |-> g.db, res |-> Err(g.res.err)]

\* Display of a RedisElement: a string is written as it is, Nil as "(nil)".
NIL_TOKEN == <<"(", "n", "i", "l", ")">>

to_string(re) ==
    CASE re.type = "string" -> re.s
      [] re.type = "nil" -> NIL_TOKEN

rename_method(d, t, key_origin, key_destination) ==
    LET g == getdel_method(d, t, key_origin)
    IN  IF g.res.ok
        THEN [db |-> set_method(g.db, t, key_destination, to_string(g.res.val)),
              resp |-> Normal(Str(S_Ok))]
        ELSE [db |-> g.db, resp |-> Error(g.res.err)]

RECURSIVE del_loop(_, _, _)
del_loop(d, keys, count) ==
    IF keys = <<>> THEN [db |-> d, count |-> count]
    ELSE LET r == remove(d, keys[1])
         IN  del_loop(r.m, Tail(keys), IF r.ret.some THEN count + 1 ELSE count)

del_method(d, t, keys) ==
    LET r == del_loop(d, keys, 0)
    IN  [db |-> r.db, resp |-> Normal(Str(usize_to_string(r.count)))]

append_method(d, t, key, value) ==
    LET g == get_method(d, t, key)
    IN  IF g.res.ok
        THEN IF g.res.val.type = "string"
             THEN [db |-> set_method(g.db, t, key, g.res.val.s \o value),
                   resp |-> Normal(Str(S_Ok))]
             ELSE IF g.res.val.type = "nil"
             THEN [db |-> set_method(g.db, t, key, value), resp |-> Normal(Str(S_Ok))]
             ELSE [db |-> g.db, resp |-> Error(WRONGTYPE_MSG)]
        ELSE [db |-> g.db, resp |-> Error(g.res.err)]

RECURSIVE exists_loop(_, _, _, _)
exists_loop(d, t, keys, count) ==
    IF keys = <<>> THEN [db |-> d, count |-> count]
    ELSE LET c == contains_key(d, t, keys[1])
         IN  exists_loop(c.m, t, Tail(keys), IF c.ret THEN count + 1 ELSE count)

exists_method(d, t, keys) ==
    LET r == exists_loop(d, t, keys, 0)
    IN  [db |-> r.db, resp |-> Normal(Str(usize_to_string(r.count)))]

\* ttl is a Duration, here in ticks.
expire_method(d, t, key, ttl) ==
    LET r == set_ttl_relative(d, t, key, ttl)
    IN  [db |-> r.m, resp |-> Normal(Str(usize_to_string(IF r.ret.some THEN 1 ELSE 0)))]

\* ttl is a SystemTime, here the tick it falls on.
expireat_method(d, t, key, ttl) ==
    LET r == set_ttl_absolute(d, t, key, ttl)
    IN  [db |-> r.m, resp |-> Normal(Str(usize_to_string(IF r.ret.some THEN 1 ELSE 0)))]

persist_method(d, t, key) ==
    LET r == delete_ttl(d, t, key)
    IN  [db |-> r.m, resp |-> Normal(Str(usize_to_string(IF r.ret.some THEN 1 ELSE 0)))]

RECURSIVE touch_loop(_, _, _, _)
touch_loop(d, t, keys, count) ==
    IF keys = <<>> THEN [db |-> d, count |-> count]
    ELSE LET u == update_last_access(d, t, keys[1])
         IN  touch_loop(u.m, t, Tail(keys), IF u.ret.some THEN count + 1 ELSE count)

touch_method(d, t, keys) ==
    LET r == touch_loop(d, t, keys, 0)
    IN  [db |-> r.db, resp |-> Normal(Str(usize_to_string(r.count)))]

\* as_secs rounding to the next whole second.
as_secs_rounded_up(duration) == (duration + TicksPerSec - 1) \div TicksPerSec

\* Duration::as_secs: whole seconds, rounded down.
as_secs(duration) == duration \div TicksPerSec

ttl_method(d, t, key) ==
    LET r == get_ttl(d, t, key)
    IN  [db |-> r.m,
         resp |-> Normal(Str(IF r.ret.some
                             THEN IF r.ret.val = 0 THEN <<"-", "1">>
                                  ELSE usize_to_string(as_secs(r.ret.val))
                             ELSE <<"-", "2">>))]

\* type_method without the arm for sets.
type_method_no_set(d, t, key) ==
    LET g == get(d, t, key)
    IN  [db |-> g.m,
         resp |-> Normal(Str(IF g.ret.some
                             THEN CASE g.ret.val.type = "string" -> <<"s","t","r","i","n","g">>
                                    [] g.ret.val.type = "list" -> <<"l","i","s","t">>
                                    [] OTHER -> <<"n","o","n","e">>
                             ELSE <<"n","o","n","e">>))]

type_method(d, t, key) ==
    LET g == get(d, t, key)
    IN  [db |-> g.m,
         resp |-> Normal(Str(IF g.ret.some
                             THEN CASE g.ret.val.type = "string" -> <<"s","t","r","i","n","g">>
                                    [] g.ret.val.type = "list" -> <<"l","i","s","t">>
                                    [] g.ret.val.type = "set" -> <<"s","e","t">>
                                    [] g.ret.val.type = "nil" -> <<"n","o","n","e">>
                             ELSE <<"n","o","n","e">>))]

\* copy_method without the check of the destination.
copy_method_overwriting(d, t, key_origin, key_destination) ==
    LET o == get(d, t, key_origin)
    IN  IF ~o.ret.some THEN [db |-> o.m, resp |-> Normal(Str(usize_to_string(0)))]
        ELSE [db |-> insert(o.m, t, key_destination, o.ret.val),
              resp |-> Normal(Str(usize_to_string(1)))]

copy_method(d, t, key_origin, key_destination) ==
    LET o == get(d, t, key_origin)
    IN  IF ~o.ret.some THEN [db |-> o.m, resp |-> Normal(Str(usize_to_string(0)))]
        ELSE LET x == get(o.m, t, key_destination)
             IN  IF x.ret.some THEN [db |-> x.m, resp |-> Normal(Str(usize_to_string(0)))]
                 ELSE [db |-> insert(x.m, t, key_destination, o.ret.val),
                       resp |-> Normal(Str(usize_to_string(1)))]

flushdb_method(d) == [db |-> TtlHashMap_new, resp |-> Normal(Str(S_OK))]

dbsize_method(d) == [db |-> d, resp |-> Normal(Str(usize_to_string(len(d))))]

(***************************************************************************)
(* Lists.                                                                  *)
(***************************************************************************)
RECURSIVE reverse(_)
reverse(v) == IF v = <<>> THEN <<>> ELSE reverse(Tail(v)) \o <<Head(v)>>

Min(a, b) == IF a < b THEN a ELSE b

\* Vec::remove(i), i counted from 0.
vec_remove(v, i) == SubSeq(v, 1, i) \o SubSeq(v, i + 2, Len(v))

lindex_method(d, t, key, index) ==
    LET g == get_mut(d, t, key)
    IN  [db |-> g.m,
         resp |-> IF g.ret.some
                  THEN IF g.ret.val.type = "list"
                       THEN LET value == g.ret.val.l
                                position == IF index < 0 THEN index + Len(value) ELSE index
                            IN  \* position as usize: a negative one is past every index
                                IF position >= 0 /\ position < Len(value)
                                THEN Normal(Str(value[position + 1]))
                                ELSE Normal(Nil)
                       ELSE Error(WRONGTYPE_MSG)
                  ELSE Normal(Nil)]

llen_method(d, t, key) ==
    LET g == get_mut(d, t, key)
    IN  [db |-> g.m,
         resp |-> IF g.ret.some
                  THEN IF g.ret.val.type = "list"
                       THEN Normal(Str(usize_to_string(Len(g.ret.val.l))))
                       ELSE Error(WRONGTYPE_MSG)
                  ELSE Normal(Str(usize_to_string(0)))]

\* The shared tail of lpop_method and rpop_method: the response for the
\* popped elements.
pop_response(return_value) ==
    IF Len(return_value) = 1 THEN Normal(Str(return_value[1]))
    ELSE IF Len(return_value) > 0 THEN Normal(List(return_value))
    ELSE Normal(Nil)

\* value.get(..=0).unwrap() panics on an empty vector.
lpop_method(d, t, key, count) ==
    LET g == get_mut(d, t, key)
    IN  IF g.ret.some
        THEN IF g.ret.val.type = "list"
             THEN LET value == g.ret.val.l
                      qty == IF count >= Len(value) THEN Len(value) ELSE count
                      return_value == IF count = 0 THEN SubSeq(value, 1, 1)
                                      ELSE SubSeq(value, 1, qty)
                      vector_to_save == IF count = 0 THEN SubSeq(value, 2, Len(value))
                                        ELSE SubSeq(value, qty + 1, Len(value))
                  IN  IF count = 0 /\ Len(value) = 0
                      THEN [db |-> g.m, resp |-> Panic]
                      ELSE [db |-> insert(g.m, t, key, List(vector_to_save)),
                            resp |-> pop_response(return_value)]
             ELSE [db |-> g.m, resp |-> Error(WRONGTYPE_MSG)]
        ELSE [db |-> g.m, resp |-> Normal(Nil)]

rpop_method(d, t, key, count) ==
    LET g == get_mut(d, t, key)
    IN  IF g.ret.some
        THEN IF g.ret.val.type = "list"
             THEN LET value == reverse(g.ret.val.l)
                      qty == IF count >= Len(value) THEN Len(value) ELSE count
                      return_value == IF count = 0 THEN SubSeq(value, 1, 1)
                                      ELSE SubSeq(value, 1, qty)
                      vector_to_save == IF count = 0 THEN SubSeq(value, 2, Len(value))
                                        ELSE SubSeq(value, qty + 1, Len(value))
                  IN  IF count = 0 /\ Len(value) = 0
                      THEN [db |-> [g.m EXCEPT !.store[key] = List(value)], resp |-> Panic]
                      ELSE [db |-> insert(g.m, t, key, List(reverse(vector_to_save))),
                            resp |-> pop_response(return_value)]
             ELSE [db |-> g.m, resp |-> Error(WRONGTYPE_MSG)]
        ELSE [db |-> g.m, resp |-> Normal(Nil)]

\* The variant of lpush_method that keeps the values in the order given.
lpush_method_in_order(d, t, key, values) ==
    LET g == get_mut(d, t, key)
    IN  IF g.ret.some
        THEN IF g.ret.val.type = "list"
             THEN [db |-> insert(g.m, t, key, List(values \o g.ret.val.l)),
                   resp |-> Normal(Str(usize_to_string(Len(values \o g.ret.val.l))))]
             ELSE [db |-> g.m, resp |-> Error(WRONGTYPE_MSG)]
        ELSE [db |-> insert(g.m, t, key, List(values)),
              resp |-> Normal(Str(usize_to_string(Len(values))))]

lpush_method(d, t, key, values) ==
    LET redis_element == reverse(values)
        g == get_mut(d, t, key)
    IN  IF g.ret.some
        THEN IF g.ret.val.type = "list"
             THEN [db |-> insert(g.m, t, key, List(redis_element \o g.ret.val.l)),
                   resp |-> Normal(Str(usize_to_string(Len(redis_element \o g.ret.val.l))))]
             ELSE [db |-> g.m, resp |-> Error(WRONGTYPE_MSG)]
        ELSE [db |-> insert(g.m, t, key, List(redis_element)),
              resp |-> Normal(Str(usize_to_string(Len(redis_element))))]

lpushx_method(d, t, key, values) ==
    LET redis_element == reverse(values)
        g == get_mut(d, t, key)
    IN  IF g.ret.some
        THEN IF g.ret.val.type = "list"
             THEN [db |-> insert(g.m, t, key, List(redis_element \o g.ret.val.l)),
                   resp |-> Normal(Str(usize_to_string(Len(redis_element \o g.ret.val.l))))]
             ELSE [db |-> g.m, resp |-> Error(WRONGTYPE_MSG)]
        ELSE [db |-> insert(g.m, t, key, List(<<>>)),
              resp |-> Normal(Str(usize_to_string(0)))]

rpush_method(d, t, key, values) ==
    LET g == get_mut(d, t, key)
    IN  IF g.ret.some
        THEN IF g.ret.val.type = "list"
             THEN [db |-> insert(g.m, t, key, List(g.ret.val.l \o values)),
                   resp |-> Normal(Str(usize_to_string(Len(g.ret.val.l \o values))))]
             ELSE [db |-> g.m, resp |-> Error(WRONGTYPE_MSG)]
        ELSE [db |-> insert(g.m, t, key, List(values)),
              resp |-> Normal(Str(usize_to_string(Len(values))))]

rpushx_method(d, t, key, values) ==
    LET g == get_mut(d, t, key)
    IN  IF g.ret.some
        THEN IF g.ret.val.type = "list"
             THEN [db |-> insert(g.m, t, key, List(g.ret.val.l \o values)),
                   resp |-> Normal(Str(usize_to_string(Len(g.ret.val.l \o values))))]
             ELSE [db |-> g.m, resp |-> Error(WRONGTYPE_MSG)]
        ELSE [db |-> g.m, resp |-> Normal(Str(usize_to_string(0)))]

\* n <= count with count the usize cast of an i32: a negative count becomes
\* a value above every vector length.
le_as_usize(n, count) == count < 0 \/ n <= count

\* for i in 0..vector.len(): the range is fixed before the first removal.
RECURSIVE remove_repeats_loop(_, _, _, _, _, _)
remove_repeats_loop(count, element, vector, n, i, end) ==
    IF i >= end THEN [vector |-> vector, n |-> n]
    ELSE IF le_as_usize(n, count) /\ i < Len(vector) /\ vector[i + 1] = element
         THEN remove_repeats_loop(count, element, vec_remove(vector, i), n + 1, i + 1, end)
         ELSE remove_repeats_loop(count, element, vector, n, i + 1, end)

remove_repeats(count, element, vector) ==
    remove_repeats_loop(count, element, vector, 0, 0, Len(vector))

RECURSIVE remove_all_repeats_loop(_, _, _, _, _)
remove_all_repeats_loop(element, vector, n, i, end) ==
    IF i >= end THEN [vector |-> vector, n |-> n]
    ELSE IF i < Len(vector) /\ vector[i + 1] = element
         THEN remove_all_repeats_loop(element, vec_remove(vector, i), n + 1, i + 1, end)
         ELSE remove_all_repeats_loop(element, vector, n, i + 1, end)

remove_all_repeats(element, vector) ==
    remove_all_repeats_loop(element, vector, 0, 0, Len(vector))

lrem_method(d, t, key, count, element) ==
    LET g == get_mut(d, t, key)
    IN  IF g.ret.some
        THEN IF g.ret.val.type = "list"
             THEN LET value == g.ret.val.l
                      r == IF count > 0 THEN remove_repeats(count, element, value)
                           ELSE IF count < 0
                           THEN LET x == remove_repeats(count, element, reverse(value))
                                IN  [vector |-> reverse(x.vector), n |-> x.n]
                           ELSE remove_all_repeats(element, value)
                  IN  [db |-> insert(g.m, t, key, List(r.vector)),
                       resp |-> Normal(Str(usize_to_string(r.n)))]
             ELSE [db |-> g.m, resp |-> Error(WRONGTYPE_MSG)]
        ELSE [db |-> g.m, resp |-> Normal(Str(usize_to_string(0)))]

\* lset, were it to write the element at the end of the list before it
\* answers that the index is out of range.
lset_method_writing_out_of_range(d, t, key, index, element) ==
    LET g == get_mut(d, t, key)
    IN  IF g.ret.some
        THEN IF g.ret.val.type = "list"
             THEN LET value == g.ret.val.l
                      len_value == Len(value)
                      position == IF index < 0 THEN index + len_value ELSE index
                  IN  IF position < 0 \/ position > len_value
                      THEN [db |-> [g.m EXCEPT !.store[key] =
                                        List([value EXCEPT ![len_value] = element])],
                            resp |-> Error("ERR index out of range")]
                      ELSE IF position = len_value
                      THEN [db |-> g.m, resp |-> Panic]
                      ELSE [db |-> [g.m EXCEPT !.store[key] =
                                        List([value EXCEPT ![position + 1] = element])],
                            resp |-> Normal(Str(S_Ok))]
             ELSE [db |-> g.m, resp |-> Error(WRONGTYPE_MSG)]
        ELSE [db |-> g.m, resp |-> Error("ERR no such key")]

\* The element is written through the reference get_mut returned: insert is
\* not called.  saved_value[position] panics when position = len_value.
lset_method(d, t, key, index, element) ==
    LET g == get_mut(d, t, key)
    IN  IF g.ret.some
        THEN IF g.ret.val.type = "list"
             THEN LET value == g.ret.val.l
                      len_value == Len(value)
                      position == IF index < 0 THEN index + len_value ELSE index
                  IN  IF position < 0 \/ position > len_value
                      THEN [db |-> g.m, resp |-> Error("ERR index out of range")]
                      ELSE IF position = len_value
                      THEN [db |-> g.m, resp |-> Panic]
                      ELSE [db |-> [g.m EXCEPT !.store[key] =
                                        List([value EXCEPT ![position + 1] = element])],
                            resp |-> Normal(Str(S_Ok))]
             ELSE [db |-> g.m, resp |-> Error(WRONGTYPE_MSG)]
        ELSE [db |-> g.m, resp |-> Error("ERR no such key")]

(***************************************************************************)
(* Sets.                                                                   *)
(***************************************************************************)
\* The variant of sadd_method that counts every value named.
sadd_method_counting_all(d, t, key, values) ==
    LET g == get_mut(d, t, key)
    IN  IF g.ret.some
        THEN IF g.ret.val.type = "set"
             THEN [db |-> insert(g.m, t, key, Set(g.ret.val.m \cup values)),
                   resp |-> Normal(Str(usize_to_string(Cardinality(values))))]
             ELSE [db |-> g.m, resp |-> Error(WRONGTYPE_SET_MSG)]
        ELSE [db |-> insert(g.m, t, key, Set(values)),
              resp |-> Normal(Str(usize_to_string(Cardinality(values))))]

sadd_method(d, t, key, values) ==
    LET g == get_mut(d, t, key)
    IN  IF g.ret.some
        THEN IF g.ret.val.type = "set"
             THEN LET set == g.ret.val.m \cup values
                  IN  [db |-> insert(g.m, t, key, Set(set)),
                       resp |-> Normal(Str(usize_to_string(
                                    Cardinality(set) - Cardinality(g.ret.val.m))))]
             ELSE [db |-> g.m, resp |-> Error(WRONGTYPE_SET_MSG)]
        ELSE [db |-> insert(g.m, t, key, Set(values)),
              resp |-> Normal(Str(usize_to_string(Cardinality(values))))]

srem_method(d, t, key, values) ==
    LET g == get_mut(d, t, key)
    IN  IF g.ret.some
        THEN IF g.ret.val.type = "set"
             THEN [db |-> insert(g.m, t, key, Set(g.ret.val.m \ values)),
                   resp |-> Normal(Str(usize_to_string(
                                Cardinality(g.ret.val.m \cap values))))]
             ELSE [db |-> g.m, resp |-> Error(WRONGTYPE_SET_MSG)]
        ELSE [db |-> g.m, resp |-> Normal(Str(usize_to_string(0)))]

scard_method(d, t, key) ==
    LET g == get_mut(d, t, key)
    IN  [db |-> g.m,
         resp |-> IF g.ret.some
                  THEN IF g.ret.val.type = "set"
                       THEN Normal(Str(usize_to_string(Cardinality(g.ret.val.m))))
                       ELSE Error(WRONGTYPE_SET_MSG)
                  ELSE Normal(Str(<<"0">>))]

sismember_method(d, t, key, value) ==
    LET g == get_mut(d, t, key)
    IN  [db |-> g.m,
         resp |-> IF g.ret.some
                  THEN IF g.ret.val.type = "set"
                       THEN IF value \in g.ret.val.m THEN Normal(Str(<<"1">>))
                            ELSE Normal(Str(<<"0">>))
                       ELSE Error(WRONGTYPE_SET_MSG)
                  ELSE Error("The key doesn't exist")]

(***************************************************************************)
(* The snapshot codec of TtlHashMap<String, RedisElement>.                 *)
(*                                                                         *)
(* A byte is a number of 0..255 and a byte stream a sequence of bytes.  A  *)
(* decoder takes the bytes that are left in the Drain and returns what it  *)
(* read (ret, an Option) and the bytes it left (rest).  usize and u32      *)
(* numbers are U32 records, hi * 2^31 + lo, so that every length up to     *)
(* 2^32 - 1 is computed at its width.                                      *)
(***************************************************************************)
OP_EOF == 255
OP_EXPIRETIME == 253
OP_RESIZEDB == 251
WRONG_ELEMENT_TYPE == 3

\* The characters of the model and their UTF-8 encoding, one byte each.
Alphabet ==
    {[char |-> "a", byte |-> 97], [char |-> "b", byte |-> 98],
     [char |-> "k", byte |-> 107], [char |-> "q", byte |-> 113],
     [char |-> "^@", byte |-> 0], [char |-> "^A", byte |-> 1],
     [char |-> "^B", byte |-> 2], [char |-> "^C", byte |-> 3],
     [char |-> "^D", byte |-> 4]}

\* str::as_bytes
as_bytes(string) ==
    [i \in 1..Len(string) |-> (CHOOSE e \in Alphabet : e.char = string[i]).byte]

\* std::str::from_utf8.  The streams of the model hold no byte of
\* 0xC2..0xF4, the first bytes of the characters of several bytes: a byte
\* above 0x7F is then never part of a character.
from_utf8(bytes) ==
    IF \A i \in 1..Len(bytes) : bytes[i] < 128
    THEN Ok([i \in 1..Len(bytes) |-> (CHOOSE e \in Alphabet : e.byte = bytes[i]).char])
    ELSE Err("invalid utf-8 sequence")

\* u32::to_be_bytes
to_be_bytes(n) ==
    <<n.hi * 128 + n.lo \div 16777216, (n.lo \div 65536) % 256,
      (n.lo \div 256) % 256, n.lo % 256>>

bytes_as_u32_be(bytes) ==
    U32(bytes[1] \div 128,
        (bytes[1] % 128) * 16777216 + bytes[2] * 65536 + bytes[3] * 256 + bytes[4])

read_int(s) ==
    IF Len(s) < 4
    THEN [ret |-> None, rest |-> <<>>]
    ELSE [ret |-> Some(bytes_as_u32_be(SubSeq(s, 1, 4))), rest |-> SubSeq(s, 5, Len(s))]

\* length_encode, were its second form to start at 63.
length_encode_short_first_form(length) ==
    IF length.hi = 0 /\ length.lo < 63
    THEN <<length.lo>>
    ELSE IF length.hi = 0 /\ length.lo < 16384
         THEN <<64 + length.lo \div 256, length.lo % 256>>
         ELSE <<128>> \o to_be_bytes(length)

length_encode(length) ==
    IF length.hi = 0 /\ length.lo < 64
    THEN <<length.lo>>
    ELSE IF length.hi = 0 /\ length.lo < 16384
         THEN <<64 + length.lo \div 256, length.lo % 256>>
         ELSE <<128>> \o to_be_bytes(length)

\* A Drain that is empty where the length starts reads as the byte 5.
length_decode(s) ==
    LET first_byte == IF s = <<>> THEN 5 ELSE Head(s)
        rest == IF s = <<>> THEN <<>> ELSE Tail(s)
    IN  CASE first_byte \div 64 = 0 -> [ret |-> Some(U32(0, first_byte)), rest |-> rest]
          [] first_byte \div 64 = 1 ->
                IF rest = <<>>
                THEN [ret |-> None, rest |-> <<>>]
                ELSE [ret |-> Some(bytes_as_u32_be(<<0, 0, first_byte % 64, Head(rest)>>)),
                      rest |-> Tail(rest)]
          [] first_byte \div 64 = 2 -> read_int(rest)
          [] OTHER -> [ret |-> None, rest |-> rest]

\* The bytes of a string whose length has been read: the loop reads len
\* bytes and stops at the first that is missing.
string_decode_bytes(length) ==
    IF ~length.ret.some \/ length.ret.val.hi = 1 \/ length.ret.val.lo > Len(length.rest)
    THEN [ret |-> None, rest |-> <<>>]
    ELSE LET n == length.ret.val.lo
             string == from_utf8(SubSeq(length.rest, 1, n))
         IN  [ret |-> IF string.ok THEN Some(string.val) ELSE None,
              rest |-> SubSeq(length.rest, n + 1, Len(length.rest))]

string_decode(s) == string_decode_bytes(length_decode(s))

string_encode(string) == length_encode(U32(0, Len(string))) \o as_bytes(string)

RECURSIVE list_encode_loop(_)
list_encode_loop(list) ==
    IF list = <<>> THEN <<>>
    ELSE string_encode(Head(list)) \o list_encode_loop(Tail(list))

list_encode(list) == length_encode(U32(0, Len(list))) \o list_encode_loop(list)

RECURSIVE list_decode_loop(_, _, _)
RECURSIVE list_decode_push(_, _, _)
\* vec.push(string_decode(s)?), string being what string_decode returned.
list_decode_push(string, n, vec) ==
    IF ~string.ret.some THEN [ret |-> None, rest |-> <<>>]
    ELSE list_decode_loop(string.rest, n - 1, Append(vec, string.ret.val))

list_decode_loop(s, n, vec) ==
    IF n = 0 THEN [ret |-> Some(vec), rest |-> s]
    ELSE list_decode_push(string_decode(s), n, vec)

\* The strings of a list whose length has been read.  Every string takes a
\* byte at least (an empty Drain reads as the length 5): a list longer than
\* the bytes that are left ends in None.
list_decode_strings(length) ==
    IF ~length.ret.some \/ length.ret.val.hi = 1 \/ length.ret.val.lo > Len(length.rest)
    THEN [ret |-> None, rest |-> <<>>]
    ELSE list_decode_loop(length.rest, length.ret.val.lo, <<>>)

list_decode(s) == list_decode_strings(length_decode(s))

\* iter is the order in which the HashSet yields its members.
value_encode(value, iter) ==
    CASE value.type = "string" -> string_encode(value.s)
      [] value.type = "list" -> list_encode(value.l)
      [] value.type = "set" -> list_encode(iter)
      [] OTHER -> <<>>

\* Vec::into_iter().collect() into a HashSet
collect(vec) == Set({vec[i] : i \in 1..Len(vec)})

\* Some(RedisElement::..(x?)), x being what the decoder of the type returned.
some_element(x, value_type) ==
    [ret |-> IF ~x.ret.some THEN None
             ELSE CASE value_type = 0 -> Some(Str(x.ret.val))
                    [] value_type = 1 -> Some(List(x.ret.val))
                    [] OTHER -> Some(collect(x.ret.val)),
     rest |-> x.rest]

value_decode(s, value_type) ==
    CASE value_type = 0 -> some_element(string_decode(s), value_type)
      [] value_type = 1 -> some_element(list_decode(s), value_type)
      [] value_type = 2 -> some_element(list_decode(s), value_type)
      [] OTHER -> [ret |-> None, rest |-> s]

value_type_encode(value) ==
    CASE value.type = "string" -> 0
      [] value.type = "list" -> 1
      [] value.type = "set" -> 2
      [] OTHER -> WRONG_ELEMENT_TYPE

\* keys is the order in which the HashMap yields its keys and sets[key] the
\* order in which the set at the key yields its members.  The deadlines of
\* the model are below 2^31 seconds: secs as u32 is U32(0, secs).
RECURSIVE serialize_loop(_, _, _, _)
serialize_loop(m, keys, sets, i) ==
    IF i > Len(keys) THEN <<>>
    ELSE LET key == keys[i]
             value == m.store[key]
             value_type == value_type_encode(value)
         IN  (IF key \in DOMAIN m.ttls
              THEN <<OP_EXPIRETIME>> \o to_be_bytes(U32(0, as_secs(m.ttls[key] - UNIX_EPOCH)))
              ELSE <<>>)
             \o (IF value_type # WRONG_ELEMENT_TYPE
                 THEN <<value_type>> \o string_encode(key)
                      \o value_encode(value, IF key \in DOMAIN sets THEN sets[key] ELSE <<>>)
                 ELSE <<>>)
             \o serialize_loop(m, keys, sets, i + 1)

serialize(m, keys, sets) ==
    <<OP_RESIZEDB>>
    \o length_encode(U32(0, Cardinality(DOMAIN m.store)))
    \o length_encode(U32(0, Cardinality(DOMAIN m.ttls)))
    \o serialize_loop(m, keys, sets, 1)
    \o <<OP_EOF>>

\* An instant the clock of the model cannot hold, 2^31 ticks or more after
\* the epoch: a stream that carries one is outside the model.
Beyond == Err("(deadline beyond the clock of the model)")

RECURSIVE load(_, _, _)
RECURSIVE load_expiretime(_, _, _)
RECURSIVE load_key(_, _, _, _, _)
RECURSIVE load_value(_, _, _, _, _)
\* The entry whose value has been read is inserted, with the deadline ttl
\* when an EXPIRE record came before it, and the loop goes on.
load_value(m, key, value, ttl, t) ==
    IF ~value.ret.some THEN Err("Corrupt value")
    ELSE IF ~ttl.some THEN load(insert(m, t, key, value.ret.val), value.rest, t)
    ELSE IF ttl.val.hi = 1 \/ ttl.val.lo > I32_MAX \div TicksPerSec THEN Beyond
    ELSE load(set_ttl_absolute(insert(m, t, key, value.ret.val), t, key,
                               UNIX_EPOCH + ttl.val.lo * TicksPerSec).m,
              value.rest, t)

\* The value of the entry whose key has been read is read.
load_key(m, key, value_type, ttl, t) ==
    IF ~key.ret.some THEN Err("Corrupt key")
    ELSE load_value(m, key.ret.val, value_decode(key.rest, value_type), ttl, t)

\* The arm of OP_EXPIRETIME, secs being what read_int returned.  The
\* deadline is past when ttl <= now, which is secs <= now in seconds; the
\* record of the value is read only when it is not past.
load_expiretime(m, secs, t) ==
    IF ~secs.ret.some THEN Err("Corrupt expiry time")
    ELSE IF secs.ret.val.hi = 1 \/ secs.ret.val.lo > as_secs(t - UNIX_EPOCH)
    THEN IF secs.rest = <<>> THEN Err("Corrupt value type")
         ELSE load_key(m, string_decode(Tail(secs.rest)), Head(secs.rest),
                       Some(secs.ret.val), t)
    ELSE load(m, secs.rest, t)

load(m, s, t) ==
    IF s = <<>> THEN Ok(m)
    ELSE LET op_code == Head(s)
         IN  CASE op_code = OP_EXPIRETIME -> load_expiretime(m, read_int(Tail(s)), t)
               [] op_code = OP_EOF -> load(m, Tail(s), t)
               [] OTHER -> load_key(m, string_decode(Tail(s)), op_code, None, t)

\* An empty Drain reads as the byte 0 where the first opcode is expected.
deserialize(s, t) ==
    LET op_code == IF s = <<>> THEN 0 ELSE Head(s)
    IN  CASE op_code = OP_RESIZEDB ->
                LET store_size == length_decode(Tail(s))
                IN  IF ~store_size.ret.some THEN Err("Corrupt store size")
                    ELSE LET ttl_size == length_decode(store_size.rest)
                         IN  IF ~ttl_size.ret.some THEN Err("Corrupt ttl size")
                             ELSE load(TtlHashMap_new, ttl_size.rest, t)
          [] op_code = OP_EOF -> Ok(TtlHashMap_new)
          [] OTHER -> Err("Found unknown OP code.")

\* fs::File::create and write_all: created tells whether the file could be
\* made; the answer and the file afterwards.
store_method(d, file, created, keys, sets) ==
    IF created
    THEN [fs |-> Some(serialize(d, keys, sets)), resp |-> Normal(Str(S_Ok))]
    ELSE [fs |-> file, resp |-> Error("Permission denied (os error 13)")]

\* fs::read_to_string fails when there is no file at the path.
load_method(d, t, file) ==
    IF ~file.some
    THEN [db |-> d, resp |-> Error("No such file or directory (os error 2)")]
    ELSE LET r == deserialize(file.val, t)
         IN  IF r.ok
             THEN [db |-> r.val, resp |-> Normal(Str(S_Ok))]
             ELSE [db |-> d, resp |-> Error(r.err)]

(***************************************************************************)
(* The pub/sub broker of Redis.  A broker b is the record of subscribers,  *)
(* sinks and closed.  subscribe makes an mpsc channel: the sender sen is   *)
(* the number of the channel, sinks[sen] the messages sent on it, in the   *)
(* order of the sends, which is the order in which the receiver yields     *)
(* them.  A handler returns the broker it leaves and its response.         *)
(***************************************************************************)
Stream(rec) == [kind |-> "Stream", rec |-> rec]

S_subscribe == <<"s", "u", "b", "s", "c", "r", "i", "b", "e">>

\* mpsc::Sender::send: the message is queued, or lost when the receiver
\* has been dropped; the result is ignored by every caller.
send(b, x, msg) ==
    IF x \in b.closed THEN b
    ELSE [b EXCEPT !.sinks = [b.sinks EXCEPT ![x] = Append(@, msg)]]

RECURSIVE subscribe_loop(_, _, _)
subscribe_loop(b, sen, channels) ==
    IF channels = <<>> THEN b
    ELSE LET channel == Head(channels)
             vector_sender == IF channel \in DOMAIN b.subscribers
                              THEN Append(b.subscribers[channel], sen)
                              ELSE <<sen>>
             inserted == [b EXCEPT !.subscribers = MapInsert(@, channel, vector_sender)]
         IN  subscribe_loop(send(inserted, sen, List(<<S_subscribe, channel, <<"1">>>>)),
                            sen, Tail(channels))

subscribe_method(b, channels) ==
    LET sen == Len(b.sinks) + 1
    IN  [broker |-> subscribe_loop([b EXCEPT !.sinks = Append(@, <<>>)], sen, channels),
         resp |-> Stream(sen)]

RECURSIVE publish_loop(_, _, _)
publish_loop(b, vector, msg) ==
    IF vector = <<>> THEN b
    ELSE publish_loop(send(b, Head(vector), Str(msg)), Tail(vector), msg)

publish_method(b, channel, msg) ==
    IF channel \notin DOMAIN b.subscribers
    THEN [broker |-> b, resp |-> Normal(Str(<<"0">>))]
    ELSE [broker |-> publish_loop(b, b.subscribers[channel], msg),
          resp |-> Normal(Str(S_Ok))]

\* iter is the order in which the HashMap yields the channels that are
\* its keys; vec_response holds a pair for each of them.
RECURSIVE numsub_loop(_, _, _)
numsub_loop(b, channels, iter) ==
    IF iter = <<>> THEN <<>>
    ELSE LET key == Head(iter)
             value == b.subscribers[key]
         IN  (IF \E i \in 1..Len(channels) : channels[i] = key
              THEN <<key, usize_to_string(Len(value))>>
              ELSE <<key, <<"0">>>>)
             \o numsub_loop(b, channels, Tail(iter))

numsub_with_channels_method(b, channels, iter) ==
    [broker |-> b, resp |-> Normal(List(numsub_loop(b, channels, iter)))]

\* The Command::Unsubscribe arm of execute.
unsubscribe(b, channels) ==
    [broker |-> b, resp |-> Error("Method not implemented")]

(***************************************************************************)
(* The monitors.  vec_senders holds the sender of every monitor, a channel *)
(* of sinks like those of subscribe.                                       *)
(***************************************************************************)
\* Command::as_str, the description of a command: its name, then its key
\* or its channel.
as_str(command) ==
    <<command.op>>
    \o (IF "key" \in DOMAIN command THEN <<command.key>> ELSE <<>>)
    \o (IF "channel" \in DOMAIN command THEN command.channel ELSE <<>>)

\* notify_monitor, were it to leave out the monitor that came last.
RECURSIVE notify_monitor_but_last(_, _, _)
notify_monitor_but_last(b, senders, command_str) ==
    IF Len(senders) <= 1 THEN b
    ELSE notify_monitor_but_last(
             IF command_str # <<>> THEN send(b, Head(senders), Str(command_str)) ELSE b,
             Tail(senders), command_str)

\* senders is what is left of vec_senders for the loop.
RECURSIVE notify_monitor(_, _, _)
notify_monitor(b, senders, command_str) ==
    IF senders = <<>> THEN b
    ELSE notify_monitor(
             IF command_str # <<>> THEN send(b, Head(senders), Str(command_str)) ELSE b,
             Tail(senders), command_str)

\* The receiver of the new channel is held by monitor_method itself: the
\* send of "OK" cannot fail.
monitor_method(b) ==
    LET sen == Len(b.sinks) + 1
        sent == send([b EXCEPT !.sinks = Append(@, <<>>)], sen, Str(S_OK))
    IN  [broker |-> [sent EXCEPT !.vec_senders = Append(@, sen)], resp |-> Stream(sen)]

(***************************************************************************)
(* Inputs of the commands.                                                 *)
(***************************************************************************)
SeqsUpTo(S, n) == UNION {[1..i -> S] : i \in 1..n}

PushVals == SeqsUpTo(Elems, 2)
SetVals == (SUBSET Elems) \ {{}}
Amounts == {U32(0, n) : n \in 0..MaxAbsInt}
\* The amounts at the ends of the two halves of u32.
EdgeAmounts ==
    {U32(hi, lo) : hi \in {0, 1},
                   lo \in (0..MaxAbsInt) \cup {I32_MAX - i : i \in 0..MaxAbsInt}}
\* The integers a stored string may stand for: around 0, and for the
\* arithmetic at the ends of i32, around i32::MIN and i32::MAX too.
SmallInts == (0 - MaxAbsInt)..MaxAbsInt
EdgeInts ==
    SmallInts \cup {I32_MIN + i : i \in 0..MaxAbsInt} \cup {I32_MAX - i : i \in 0..MaxAbsInt}
Counts == 0..(MaxListLen + 1)
Indexes == (0 - (MaxListLen + 1))..(MaxListLen + 1)
RemCounts == (0 - (MaxListLen + 1))..(MaxListLen + 1)
\* expire: 0 or 1 second; expireat: second 0, 1 or 2 after the epoch.
Durations == {s * TicksPerSec : s \in {0, 1}}
Instants == {s * TicksPerSec : s \in {0, 1, 2}}

\* A scope is the part of the input space a specification explores: the key
\* names, the longest string and list it lets a key hold, the integers a
\* stored string may stand for and the amounts of incrby and decrby.
Scope(keys, strlen, listlen) ==
    [keys |-> keys, strlen |-> strlen, listlen |-> listlen,
     ints |-> SmallInts, amounts |-> Amounts]

InBounds(S, value) ==
    CASE value.type = "string" ->
            /\ Len(value.s) <= S.strlen
            /\ parse_i32(value.s).some => parse_i32(value.s).val \in S.ints
      [] value.type = "list" -> Len(value.l) <= S.listlen
      [] OTHER -> TRUE

Bounded(S, d) == \A k \in DOMAIN d.store : InBounds(S, d.store[k])

(***************************************************************************)
(* Redis::execute: one action per command.  r is what the handler returns. *)
(***************************************************************************)
Idle == [op |-> "idle"]

\* The pub/sub and monitor state of the executor.
Broker ==
    [subscribers |-> subscribers, sinks |-> sinks, closed |-> closed,
     vec_senders |-> vec_senders]

Clients == {1, 2}

\* No client has submitted a command.
NoAdapter ==
    [submitted |-> [c \in Clients |-> <<>>], queue |-> <<>>, done |-> <<>>,
     answers |-> [c \in Clients |-> <<>>]]
NoResp == [kind |-> "None"]

Ready == cmd = Idle

\* execute is called with command c; r is what the handler returns.
Exec(S, c, r) ==
    /\ Ready
    /\ Bounded(S, r.db)
    /\ db' = r.db
    /\ resp' = r.resp
    /\ cmd' = c
    /\ old' = db
    /\ old_broker' = Broker
    /\ UNCHANGED <<now, fs, subscribers, sinks, closed, vec_senders, adapter>>

\* Result<Re, String> to Result<Response, String>.
AsResponse(r) ==
    [db |-> r.db, resp |-> IF r.res.ok THEN Normal(r.res.val) ELSE Error(r.res.err)]

\* No snapshot file, no subscriber, no monitor and no channel: Redis::new.
InitRest ==
    /\ fs = None
    /\ subscribers = EmptyMap
    /\ sinks = <<>>
    /\ closed = {}
    /\ vec_senders = <<>>
    /\ adapter = NoAdapter
    /\ old_broker = Broker

Init ==
    /\ now = 0
    /\ db = TtlHashMap_new
    /\ cmd = Idle
    /\ resp = NoResp
    /\ old = TtlHashMap_new
    /\ InitRest

\* The clock advances between two commands.
Tick ==
    /\ Ready
    /\ now < MaxTime
    /\ now' = now + 1
    /\ UNCHANGED <<db, cmd, resp, old, fs, subscribers, sinks, closed, old_broker, vec_senders, adapter>>

\* The caller takes the response; a panic leaves no executor to return.
Return ==
    /\ ~Ready
    /\ resp.kind # "Panic"
    /\ cmd' = Idle
    /\ resp' = NoResp
    /\ old' = db
    /\ old_broker' = Broker
    /\ UNCHANGED <<now, db, fs, subscribers, sinks, closed, vec_senders, adapter>>

CmdGet(S) == \E k \in S.keys : Exec(S, [op |-> "get", key |-> k], AsResponse(get_method(db, now, k)))

CmdGetdel(S) == \E k \in S.keys :
    Exec(S, [op |-> "getdel", key |-> k], AsResponse(getdel_method(db, now, k)))

CmdSet(S) == \E k \in S.keys, v \in StrInputs :
    Exec(S, [op |-> "set", key |-> k, value |-> v],
         [db |-> set_method(db, now, k, v), resp |-> Normal(Str(S_Ok))])

CmdGetset(S) == \E k \in S.keys, v \in StrInputs :
    Exec(S, [op |-> "getset", key |-> k, value |-> v], getset_method(db, now, k, v))

CmdAppend(S) == \E k \in S.keys, v \in StrInputs :
    Exec(S, [op |-> "append", key |-> k, value |-> v], append_method(db, now, k, v))

CmdIncrby(S) == \E k \in S.keys, n \in S.amounts, build \in Builds :
    Exec(S, [op |-> "incrby", key |-> k, increment |-> n],
         incrby_method(db, now, k, as_i32(n), build))

CmdDecrby(S) == \E k \in S.keys, n \in S.amounts, build \in Builds :
    Exec(S, [op |-> "decrby", key |-> k, decrement |-> n],
         decrby(db, now, k, n, build))

CmdMset(S) == \E kv \in SeqsUpTo(S.keys \X StrInputs, 2) :
    Exec(S, [op |-> "mset", key_values |-> kv], mset_method(db, now, kv))

CmdStrlen(S) == \E k \in S.keys : Exec(S, [op |-> "strlen", key |-> k], strlen_method(db, now, k))

CmdCopy(S) == \E o \in S.keys, x \in S.keys :
    Exec(S, [op |-> "copy", key_origin |-> o, key_destination |-> x],
         copy_method(db, now, o, x))

CmdDel(S) == \E ks \in SeqsUpTo(S.keys, 2) : Exec(S, [op |-> "del", keys |-> ks], del_method(db, now, ks))

CmdExists(S) == \E ks \in SeqsUpTo(S.keys, 2) :
    Exec(S, [op |-> "exists", keys |-> ks], exists_method(db, now, ks))

CmdExpire(S) == \E k \in S.keys, ttl \in Durations :
    Exec(S, [op |-> "expire", key |-> k, ttl |-> ttl], expire_method(db, now, k, ttl))

CmdExpireat(S) == \E k \in S.keys, ttl \in Instants :
    Exec(S, [op |-> "expireat", key |-> k, ttl |-> ttl], expireat_method(db, now, k, ttl))

CmdPersist(S) == \E k \in S.keys : Exec(S, [op |-> "persist", key |-> k], persist_method(db, now, k))

CmdRename(S) == \E ko \in S.keys, kd \in S.keys :
    Exec(S, [op |-> "rename", key_origin |-> ko, key_destination |-> kd],
         rename_method(db, now, ko, kd))

CmdTouch(S) == \E ks \in SeqsUpTo(S.keys, 2) :
    Exec(S, [op |-> "touch", keys |-> ks], touch_method(db, now, ks))

CmdTtl(S) == \E k \in S.keys : Exec(S, [op |-> "ttl", key |-> k], ttl_method(db, now, k))

CmdType(S) == \E k \in S.keys : Exec(S, [op |-> "type", key |-> k], type_method(db, now, k))

CmdFlushdb(S) == Exec(S, [op |-> "flushdb"], flushdb_method(db))

CmdDbsize(S) == Exec(S, [op |-> "dbsize"], dbsize_method(db))

CmdLindex(S) == \E k \in S.keys, i \in Indexes :
    Exec(S, [op |-> "lindex", key |-> k, index |-> i], lindex_method(db, now, k, i))

CmdLlen(S) == \E k \in S.keys : Exec(S, [op |-> "llen", key |-> k], llen_method(db, now, k))

CmdLpop(S) == \E k \in S.keys, n \in Counts :
    Exec(S, [op |-> "lpop", key |-> k, count |-> n], lpop_method(db, now, k, n))

CmdRpop(S) == \E k \in S.keys, n \in Counts :
    Exec(S, [op |-> "rpop", key |-> k, count |-> n], rpop_method(db, now, k, n))

CmdLpush(S) == \E k \in S.keys, v \in PushVals :
    Exec(S, [op |-> "lpush", key |-> k, value |-> v], lpush_method(db, now, k, v))

CmdLpushx(S) == \E k \in S.keys, v \in PushVals :
    Exec(S, [op |-> "lpushx", key |-> k, value |-> v], lpushx_method(db, now, k, v))

CmdRpush(S) == \E k \in S.keys, v \in PushVals :
    Exec(S, [op |-> "rpush", key |-> k, value |-> v], rpush_method(db, now, k, v))

CmdRpushx(S) == \E k \in S.keys, v \in PushVals :
    Exec(S, [op |-> "rpushx", key |-> k, value |-> v], rpushx_method(db, now, k, v))

CmdLrem(S) == \E k \in S.keys, n \in RemCounts, e \in Elems :
    Exec(S, [op |-> "lrem", key |-> k, count |-> n, element |-> e],
         lrem_method(db, now, k, n, e))

CmdLset(S) == \E k \in S.keys, i \in Indexes, e \in Elems :
    Exec(S, [op |-> "lset", key |-> k, index |-> i, element |-> e],
         lset_method(db, now, k, i, e))

CmdSadd(S) == \E k \in S.keys, v \in SetVals :
    Exec(S, [op |-> "sadd", key |-> k, values |-> v], sadd_method(db, now, k, v))

CmdScard(S) == \E k \in S.keys : Exec(S, [op |-> "scard", key |-> k], scard_method(db, now, k))

CmdSismember(S) == \E k \in S.keys, v \in Elems :
    Exec(S, [op |-> "sismember", key |-> k, value |-> v], sismember_method(db, now, k, v))

CmdSrem(S) == \E k \in S.keys, v \in SetVals :
    Exec(S, [op |-> "srem", key |-> k, values |-> v], srem_method(db, now, k, v))

Step(S) ==
    \/ CmdGet(S) \/ CmdGetdel(S) \/ CmdSet(S) \/ CmdGetset(S) \/ CmdAppend(S)
    \/ CmdIncrby(S) \/ CmdDecrby(S) \/ CmdMset(S) \/ CmdStrlen(S)
    \/ CmdCopy(S) \/ CmdDel(S) \/ CmdExists(S) \/ CmdExpire(S) \/ CmdExpireat(S)
    \/ CmdPersist(S) \/ CmdRename(S) \/ CmdTouch(S) \/ CmdTtl(S) \/ CmdType(S)
    \/ CmdFlushdb(S) \/ CmdDbsize(S)
    \/ CmdLindex(S) \/ CmdLlen(S) \/ CmdLpop(S) \/ CmdRpop(S) \/ CmdLpush(S)
    \/ CmdLpushx(S) \/ CmdRpush(S) \/ CmdRpushx(S) \/ CmdLrem(S) \/ CmdLset(S)
    \/ CmdSadd(S) \/ CmdSrem(S) \/ CmdScard(S) \/ CmdSismember(S)

One == Scope(Keys, MaxStrLen, MaxListLen)

Next == Tick \/ Return \/ Step(One)

Spec == Init /\ [][Next]_vars

(***************************************************************************)
(* The executor over two keys, for the commands that name more than one    *)
(* key.  The server is constructed at any instant and the clock stands     *)
(* still; values are kept to PairMaxLen characters or elements.            *)
(***************************************************************************)
Pair == Scope(PairKeys, PairMaxLen, PairMaxLen)

InitPair ==
    /\ now \in 0..MaxTime
    /\ db = TtlHashMap_new
    /\ cmd = Idle
    /\ resp = NoResp
    /\ old = TtlHashMap_new
    /\ InitRest

NextPair ==
    \/ Return
    \/ CmdSet(Pair) \/ CmdLpush(Pair) \/ CmdSadd(Pair)
    \/ CmdExpire(Pair) \/ CmdExpireat(Pair) \/ CmdPersist(Pair)
    \/ CmdGet(Pair) \/ CmdType(Pair) \/ CmdTtl(Pair)
    \/ CmdCopy(Pair) \/ CmdDel(Pair) \/ CmdExists(Pair)
    \/ CmdTouch(Pair) \/ CmdMset(Pair) \/ CmdRename(Pair)

SpecPair == InitPair /\ [][NextPair]_vars

(***************************************************************************)
(* rename on keys that may be absent or past their deadline: two keys, and  *)
(* strings as long as the text rename writes for a value that is not there. *)
(***************************************************************************)
Long == Scope(PairKeys, Len(NIL_TOKEN), PairMaxLen)

InitRename == Init

NextRename ==
    \/ Tick \/ Return
    \/ CmdSet(Long) \/ CmdExpire(Long) \/ CmdGet(Long)
    \/ CmdDbsize(Long) \/ CmdRename(Long)

SpecRename == InitRename /\ [][NextRename]_vars

(***************************************************************************)
(* lrem on its own: the server holds any list of up to LremMaxLen elements *)
(* at the key, or nothing, and lrem is called on it.                       *)
(***************************************************************************)
Wide == Scope(Keys, MaxStrLen, LremMaxLen)

InitLrem ==
    /\ now = 0
    /\ \E k \in Keys, l \in SeqsUpTo(Elems, LremMaxLen) \cup {<<>>} :
           db \in {TtlHashMap_new, insert(TtlHashMap_new, 0, k, List(l))}
    /\ cmd = Idle
    /\ resp = NoResp
    /\ old = db
    /\ InitRest

NextLrem == Return \/ CmdLrem(Wide)

SpecLrem == InitLrem /\ [][NextLrem]_vars

(***************************************************************************)
(* incrby and decrby on their own, at the ends of i32 and u32: the key is  *)
(* absent or holds a string, the decimal of an integer near 0, i32::MIN or *)
(* i32::MAX among them, and the amounts are near 0, 2^31 and 2^32.         *)
(***************************************************************************)
Big ==
    [Scope(Keys, Len(i32_to_string(I32_MIN)), 0) EXCEPT !.ints = EdgeInts, !.amounts = EdgeAmounts]

InitIncr ==
    /\ now = 0
    /\ \E k \in Keys :
           db \in {TtlHashMap_new}
                  \cup {set_method(TtlHashMap_new, 0, k, i32_to_string(v)) : v \in EdgeInts}
                  \cup {set_method(TtlHashMap_new, 0, k, v) : v \in StrInputs}
    /\ cmd = Idle
    /\ resp = NoResp
    /\ old = db
    /\ InitRest

NextIncr == Return \/ CmdIncrby(Big) \/ CmdDecrby(Big)

SpecIncr == InitIncr /\ [][NextIncr]_vars

(***************************************************************************)
(* store and load on their own.  The server holds a keyspace of strings,   *)
(* lists and sets, some with a deadline, in the second that follows the    *)
(* deadline or the one before; the snapshot is written, may be damaged     *)
(* where it lies, and is read back.                                        *)
(***************************************************************************)
CodecKeys == {<<"k">>, <<"q">>}
CodecValues ==
    [k \in CodecKeys |->
        IF k = <<"k">>
        THEN {Str(<<"a">>), List(<<<<"a">>, <<"b">>>>), Set({<<"a">>, <<"b">>})}
        ELSE {Str(<<"b">>)}]
CodecDeadlines == {TicksPerSec, TicksPerSec + 1}
CodecInstants == {TicksPerSec - 1, TicksPerSec}

Keyspaces ==
    {[store |-> st, ttls |-> tt, last_access |-> [k \in DOMAIN st |-> UNIX_EPOCH]] :
        st \in UNION {{f \in [K -> UNION {CodecValues[k] : k \in CodecKeys}] :
                          \A k \in K : f[k] \in CodecValues[k]} : K \in SUBSET CodecKeys},
        tt \in UNION {[K -> CodecDeadlines] : K \in SUBSET CodecKeys}}

\* The bytes that take the place of a byte of the file: an unknown value
\* type, and a byte that is not UTF-8.
DamageBytes == {WRONG_ELEMENT_TYPE, OP_EOF}

\* The orders in which a HashMap or a HashSet may yield the members of S.
Orders(S) ==
    {f \in [1..Cardinality(S) -> S] : \A x \in S : \E i \in DOMAIN f : f[i] = x}

SetOrders(m) ==
    LET SK == {k \in DOMAIN m.store : m.store[k].type = "set"}
    IN  {f \in [SK -> UNION {Orders(m.store[k].m) : k \in SK}] :
            \A k \in SK : f[k] \in Orders(m.store[k].m)}

InitCodec ==
    /\ now \in CodecInstants
    /\ db \in {d \in Keyspaces : DOMAIN d.ttls \subseteq DOMAIN d.store}
    /\ cmd = Idle
    /\ resp = NoResp
    /\ old = db
    /\ InitRest

\* execute is called with store or load; r is what the handler returns.
ExecFile(c, r) ==
    /\ Ready
    /\ db' = r.db
    /\ fs' = r.fs
    /\ resp' = r.resp
    /\ cmd' = c
    /\ old' = db
    /\ old_broker' = Broker
    /\ UNCHANGED <<now, subscribers, sinks, closed, vec_senders, adapter>>

CmdStore ==
    /\ db \in Keyspaces
    /\ \E created \in BOOLEAN, keys \in Orders(DOMAIN db.store), sets \in SetOrders(db) :
           LET r == store_method(db, fs, created, keys, sets)
           IN  ExecFile([op |-> "store", path |-> "dump.rdb"],
                        [db |-> db, fs |-> r.fs, resp |-> r.resp])

CmdLoad ==
    LET r == load_method(db, now, fs)
    IN  /\ r.resp # Error(Beyond.err)
        /\ ExecFile([op |-> "load", path |-> "dump.rdb"],
                    [db |-> r.db, fs |-> fs, resp |-> r.resp])

\* The file that store has just written is cut short, or one of its bytes
\* is replaced, while the response is taken.
Damage ==
    /\ cmd.op = "store"
    /\ resp = Normal(Str(S_Ok))
    /\ \/ \E n \in 0..(Len(fs.val) - 1) : fs' = Some(SubSeq(fs.val, 1, n))
       \/ \E i \in 1..Len(fs.val), b \in DamageBytes :
              /\ fs.val[i] # b
              /\ fs' = Some([fs.val EXCEPT ![i] = b])
    /\ cmd' = Idle
    /\ resp' = NoResp
    /\ old' = db
    /\ UNCHANGED <<now, db, subscribers, sinks, closed, old_broker, vec_senders, adapter>>

NextCodec == Return \/ CmdStore \/ CmdLoad \/ Damage

SpecCodec == InitCodec /\ [][NextCodec]_vars

(***************************************************************************)
(* length_encode and length_decode on their own: a length of one of the    *)
(* three forms is encoded, and the bytes are decoded.                      *)
(***************************************************************************)
MaxShortLength == 70

Lengths ==
    {U32(0, n) : n \in 0..MaxShortLength}
    \cup {U32(0, 16384 + i) : i \in (0 - 3)..3}
    \cup {U32(0, n) : n \in {255, 256, 500, 65535, 65536, 100000, 16777215, 16777216}}
    \cup {U32(hi, lo) : hi \in {0, 1}, lo \in {0, 1, 2, I32_MAX - 2, I32_MAX - 1, I32_MAX}}

InitLength == Init

LengthEncode ==
    /\ Ready
    /\ \E n \in Lengths :
           /\ cmd' = [op |-> "length_encode", length |-> n]
           /\ resp' = [kind |-> "Bytes", bytes |-> length_encode(n)]
    /\ UNCHANGED <<now, db, old, fs, subscribers, sinks, closed, old_broker, vec_senders, adapter>>

LengthDecode ==
    /\ cmd.op = "length_encode"
    /\ cmd' = [op |-> "length_decode", length |-> cmd.length, bytes |-> resp.bytes]
    /\ resp' = [kind |-> "Length", decoded |-> length_decode(resp.bytes)]
    /\ UNCHANGED <<now, db, old, fs, subscribers, sinks, closed, old_broker, vec_senders, adapter>>

NextLength == Return \/ LengthEncode \/ LengthDecode

SpecLength == InitLength /\ [][NextLength]_vars

(***************************************************************************)
(* The broker on its own: clients subscribe, publish and unsubscribe, and  *)
(* a client may drop the receiver that subscribe returned to it.           *)
(***************************************************************************)
MaxSinkLen == 4

\* The clients subscribe, each once: a client is known by the number of the
\* channel that subscribe made for it.
Channels == {<<"c">>, <<"d">>}
Messages == {<<"a">>, <<"b">>}

\* execute is called with a pub/sub command; r is what the handler returns.
ExecBroker(c, r) ==
    /\ Ready
    /\ \A x \in DOMAIN r.broker.sinks : Len(r.broker.sinks[x]) <= MaxSinkLen
    /\ subscribers' = r.broker.subscribers
    /\ sinks' = r.broker.sinks
    /\ closed' = r.broker.closed
    /\ resp' = r.resp
    /\ cmd' = c
    /\ old_broker' = Broker
    /\ old' = db
    /\ vec_senders' = r.broker.vec_senders
    /\ UNCHANGED <<now, db, fs, adapter>>

CmdSubscribe ==
    /\ Len(sinks) + 1 \in Clients
    /\ \E channels \in SeqsUpTo(Channels, 2) :
           ExecBroker([op |-> "subscribe", channels |-> channels],
                      subscribe_method(Broker, channels))

CmdPublish ==
    \E channel \in Channels, message \in Messages :
        ExecBroker([op |-> "publish", channel |-> channel, message |-> message],
                   publish_method(Broker, channel, message))

\* client_id is the client that calls: the one subscribe returned the
\* receiver of that number to.
CmdUnsubscribe ==
    \E channels \in SeqsUpTo(Channels, 2) \cup {<<>>}, client_id \in DOMAIN sinks :
        ExecBroker([op |-> "unsubscribe", channels |-> channels, client_id |-> client_id],
                   unsubscribe(Broker, channels))

\* A client drops its receiver.
DropReceiver ==
    /\ Ready
    /\ \E rec \in (DOMAIN sinks) \ closed : closed' = closed \cup {rec}
    /\ old_broker' = [Broker EXCEPT !.closed = closed']
    /\ UNCHANGED <<now, db, cmd, resp, old, fs, subscribers, sinks, vec_senders, adapter>>

\* pubsub numsub with channels; iter is the order of the HashMap.
CmdPubsub ==
    \E channels \in SeqsUpTo(Channels, 2), iter \in Orders(DOMAIN subscribers) :
        ExecBroker([op |-> "pubsub", param |-> "numsub", channels |-> channels],
                   numsub_with_channels_method(Broker, channels, iter))

InitBroker == Init

NextBroker ==
    Return \/ CmdSubscribe \/ CmdPublish \/ CmdUnsubscribe \/ CmdPubsub \/ DropReceiver

SpecBroker == InitBroker /\ [][NextBroker]_vars

(***************************************************************************)
(* execute in its two steps: notify_monitor, then the match that calls the *)
(* handler of the command.  Between the two, cmd is the command and resp   *)
(* is still to come.  Clients ask for monitor, write and read a key,       *)
(* publish and subscribe; some of the commands end in an error.            *)
(***************************************************************************)
MonitorCommands ==
    {[op |-> "monitor"], [op |-> "get", key |-> "k1"],
     [op |-> "set", key |-> "k1", value |-> <<"a">>],
     [op |-> "lpush", key |-> "k1", value |-> <<<<"a">>>>],
     [op |-> "subscribe", channels |-> <<<<"c">>>>],
     [op |-> "publish", channel |-> <<"c">>, message |-> <<"a">>]}

\* What a handler of the keyspace returns, the broker being left as it is.
of_keyspace(r, b) == [db |-> r.db, broker |-> b, resp |-> r.resp]

\* What a handler of the broker returns, the keyspace being left as it is.
of_broker(d, r) == [db |-> d, broker |-> r.broker, resp |-> r.resp]

\* The match of execute on the command: what the handler leaves and returns.
execute_match(d, b, t, command) ==
    CASE command.op = "monitor" -> of_broker(d, monitor_method(b))
      [] command.op = "get" -> of_keyspace(AsResponse(get_method(d, t, command.key)), b)
      [] command.op = "set" ->
            [db |-> set_method(d, t, command.key, command.value), broker |-> b,
             resp |-> Normal(Str(S_Ok))]
      [] command.op = "lpush" ->
            of_keyspace(lpush_method(d, t, command.key, command.value), b)
      [] command.op = "subscribe" -> of_broker(d, subscribe_method(b, command.channels))
      [] command.op = "publish" ->
            of_broker(d, publish_method(b, command.channel, command.message))
      [] command.op = "getset" ->
            of_keyspace(getset_method(d, t, command.key, command.value), b)
      [] command.op = "copy" ->
            of_keyspace(copy_method(d, t, command.key_origin, command.key_destination), b)
      [] command.op = "rename" ->
            of_keyspace(rename_method(d, t, command.key_origin, command.key_destination), b)

\* execute as a whole: the monitors are notified, then the handler is called.
execute(d, b, t, command) ==
    execute_match(d, notify_monitor(b, b.vec_senders, as_str(command)), t, command)

\* The executor is between notify_monitor and the match.
Notified == cmd # Idle /\ resp = NoResp

\* The monitors have been notified, which left the broker b; r is what the
\* match will return.  The channels and the messages on them stay within
\* the bounds.
Notify(command, b, r) ==
    /\ Bounded(One, r.db)
    /\ Len(r.broker.sinks) \in {0} \cup Clients
    /\ \A x \in DOMAIN r.broker.sinks : Len(r.broker.sinks[x]) <= MaxSinkLen
    /\ cmd' = command
    /\ sinks' = b.sinks

\* The handler is called on what notify_monitor left.
NotifyThenMatch(command, b) == Notify(command, b, execute_match(db, b, now, command))

\* execute is called with a command and notifies the monitors.
NotifyMonitor ==
    /\ Ready
    /\ \E command \in MonitorCommands :
           NotifyThenMatch(command, notify_monitor(Broker, vec_senders, as_str(command)))
    /\ resp' = NoResp
    /\ old' = db
    /\ old_broker' = Broker
    /\ UNCHANGED <<now, db, fs, subscribers, closed, vec_senders, adapter>>

\* The handler returns r.
Returning(r) ==
    /\ db' = r.db
    /\ subscribers' = r.broker.subscribers
    /\ sinks' = r.broker.sinks
    /\ vec_senders' = r.broker.vec_senders
    /\ resp' = r.resp

\* The match of execute calls the handler, which returns.
Match ==
    /\ Notified
    /\ Returning(execute_match(db, Broker, now, cmd))
    /\ UNCHANGED <<now, cmd, old, fs, closed, old_broker, adapter>>

\* The caller takes the response of the command.
Returned == ~Notified /\ Return

InitMonitor == Init

NextMonitor == NotifyMonitor \/ Match \/ Returned \/ DropReceiver

SpecMonitor == InitMonitor /\ [][NextMonitor]_vars

(***************************************************************************)
(* The validator, command_generator::generate: from the tokens of a client *)
(* to a command or an error message.  A token is a string; the commands    *)
(* are those that take a fixed number of arguments.                        *)
(***************************************************************************)
\* str::to_lowercase on the names of the model.
to_lowercase(s) ==
    CASE s = "GET" -> "get"
      [] s = "LLen" -> "llen"
      [] OTHER -> s

\* str::parse::<u32> on the tokens of the model.
parse_u32(s) ==
    CASE s = "0" -> Ok(U32(0, 0))
      [] s = "1" -> Ok(U32(0, 1))
      [] OTHER -> Err("invalid digit found in string")

generate_get(params) ==
    IF Len(params) # 1
    THEN Err("ERR wrong number of arguments for 'get' command")
    ELSE Ok([op |-> "get", key |-> params[1]])

generate_getset(params) ==
    IF Len(params) # 2
    THEN Err("ERR wrong number of arguments for 'getset' command")
    ELSE Ok([op |-> "getset", key |-> params[1], value |-> params[2]])

generate_set(params) ==
    IF Len(params) # 2
    THEN Err("ERR syntax error")
    ELSE Ok([op |-> "set", key |-> params[1], value |-> params[2]])

generate_incrby(params) ==
    IF Len(params) # 2
    THEN Err("ERR syntax error")
    ELSE LET increment == parse_u32(params[2])
         IN  IF ~increment.ok
             THEN Err("ERR value is not an integer or out of range")
             ELSE Ok([op |-> "incrby", key |-> params[1], increment |-> increment.val])

generate_decrby(params) ==
    IF Len(params) # 2
    THEN Err("ERR syntax error")
    ELSE LET decrement == parse_u32(params[2])
         IN  IF ~decrement.ok
             THEN Err("ERR value is not an integer or out of range")
             ELSE Ok([op |-> "decrby", key |-> params[1], decrement |-> decrement.val])

generate_append(params) ==
    IF Len(params) # 2
    THEN Err("ERR wrong number of arguments for 'append' command")
    ELSE Ok([op |-> "append", key |-> params[1], value |-> params[2]])

generate_ttl(params) ==
    IF Len(params) # 1
    THEN Err("ERR wrong number of arguments for 'ttl' command")
    ELSE Ok([op |-> "ttl", key |-> params[1]])

generate_type(params) ==
    IF Len(params) # 1
    THEN Err("ERR wrong number of arguments for 'type' command")
    ELSE Ok([op |-> "type", key |-> params[1]])

generate_strlen(params) ==
    IF Len(params) # 1
    THEN Err("ERR wrong number of arguments for 'strlen' command")
    ELSE Ok([op |-> "strlen", key |-> params[1]])

generate_dbsize(params) ==
    IF params # <<>>
    THEN Err("ERR wrong number of arguments for 'dbsize' command")
    ELSE Ok([op |-> "dbsize"])

generate_llen(params) ==
    IF params = <<>>
    THEN Err("ERR wrong number of arguments for 'llen' command")
    ELSE Ok([op |-> "llen", key |-> params[1]])

generate_scard(params) ==
    IF params = <<>>
    THEN Err("ERR wrong number of arguments for 'scard' command")
    ELSE Ok([op |-> "scard", key |-> params[1]])

generate_smembers(params) ==
    IF params = <<>>
    THEN Err("ERR wrong number of arguments for 'smembers' command")
    ELSE Ok([op |-> "smembers", key |-> params[1]])

generate_publish(params) ==
    IF Len(params) # 2
    THEN Err("ERR wrong number of arguments for 'publish' command")
    ELSE Ok([op |-> "publish", channel |-> params[1], message |-> params[2]])

\* The arms of the commands of the model; the other names are not valid.
generate_match(name, rest) ==
    CASE name = "get" -> generate_get(rest)
      [] name = "getset" -> generate_getset(rest)
      [] name = "set" -> generate_set(rest)
      [] name = "incrby" -> generate_incrby(rest)
      [] name = "decrby" -> generate_decrby(rest)
      [] name = "append" -> generate_append(rest)
      [] name = "strlen" -> generate_strlen(rest)
      [] name = "ttl" -> generate_ttl(rest)
      [] name = "type" -> generate_type(rest)
      [] name = "llen" -> generate_llen(rest)
      [] name = "scard" -> generate_scard(rest)
      [] name = "smembers" -> generate_smembers(rest)
      [] name = "dbsize" -> generate_dbsize(rest)
      [] name = "publish" -> generate_publish(rest)
      [] OTHER -> Err("Command not valid")

generate(params) ==
    IF params = <<>>
    THEN Err("Params can't be empty")
    ELSE generate_match(to_lowercase(Head(params)), Tail(params))

\* The tokens a client sends: a name, then up to MaxParams arguments.
MaxParams == 3
CommandNames ==
    {"GET", "LLen", "get", "getset", "set", "incrby", "decrby", "append", "strlen",
     "ttl", "type", "llen", "scard", "smembers", "dbsize", "publish"}
Tokens == {"k", "1"}
TokenVectors ==
    {<<name>> \o args : name \in CommandNames,
                         args \in UNION {[1..n -> Tokens] : n \in 0..MaxParams}}

\* The validator is called with the tokens of a client.
Generate ==
    /\ Ready
    /\ \E params \in TokenVectors :
           /\ cmd' = [op |-> "generate", params |-> params]
           /\ resp' = [kind |-> "Generated", result |-> generate(params)]
    /\ UNCHANGED <<now, db, old, fs, subscribers, sinks, closed, old_broker,
                   vec_senders, adapter>>

InitValidator == Init

NextValidator == Generate \/ Return

SpecValidator == InitValidator /\ [][NextValidator]_vars

(***************************************************************************)
(* The adapter in front of the executor.  Every client sends its commands  *)
(* on the one channel of the executor, whenever it likes; the executor     *)
(* receives a command, calls execute with it and gives the response to the *)
(* client, then receives the next.  adapter.submitted[c] holds what client *)
(* c has sent, adapter.done what the executor has received, in the order   *)
(* in which it did, and adapter.answers[c] the responses given to c.       *)
(***************************************************************************)
\* The places of a command in the sequence a client sends.
Turns == {1, 2}

AdapterCommands ==
    {[op |-> "set", key |-> "k1", value |-> <<"1">>],
     [op |-> "get", key |-> "k1"],
     [op |-> "getset", key |-> "k1", value |-> <<"a">>],
     [op |-> "getset", key |-> "k1", value |-> <<"b">>],
     [op |-> "copy", key_origin |-> "k1", key_destination |-> "k2"],
     [op |-> "rename", key_origin |-> "k2", key_destination |-> "k1"],
     [op |-> "subscribe", channels |-> <<<<"c">>>>],
     [op |-> "publish", channel |-> <<"c">>, message |-> <<"a">>]}

\* mpsc: Sender::send puts the message behind those that wait, and
\* Receiver::recv takes the one that has waited longest.
channel_send(queue, message) == Append(queue, message)

channel_recv(queue) == [message |-> Head(queue), queue |-> Tail(queue)]

\* A client sends its next command.
Submit ==
    /\ Ready
    /\ \E client \in Clients, command \in AdapterCommands :
           /\ Len(adapter.submitted[client]) + 1 \in Turns
           /\ adapter' =
                  [adapter EXCEPT
                      !.submitted[client] = Append(@, command),
                      !.queue = channel_send(@, [client |-> client, command |-> command])]
    /\ UNCHANGED <<now, db, cmd, resp, old, fs, subscribers, sinks, closed, old_broker,
                   vec_senders>>

\* The executor has received a message; r is what execute returns for it.
Answer(received, r) ==
    /\ db' = r.db
    /\ subscribers' = r.broker.subscribers
    /\ sinks' = r.broker.sinks
    /\ vec_senders' = r.broker.vec_senders
    /\ adapter' =
           [adapter EXCEPT
               !.queue = received.queue,
               !.done = Append(@, received.message),
               !.answers[received.message.client] = Append(@, r.resp)]

Receive(received) == Answer(received, execute(db, Broker, now, received.message.command))

\* The executor receives a command, executes it and answers its client.
Drain ==
    /\ Ready
    /\ adapter.queue # <<>>
    /\ Receive(channel_recv(adapter.queue))
    /\ old' = db
    /\ old_broker' = Broker
    /\ UNCHANGED <<now, cmd, resp, fs, closed>>

InitAdapter == Init

NextAdapter == Submit \/ Drain

SpecAdapter == InitAdapter /\ [][NextAdapter]_vars

(***************************************************************************)
(* Vocabulary of the properties.  In a state where a command is returning  *)
(* (cmd # Idle), old is the keyspace the command found and db the one it   *)
(* left; the clock did not move in between.                                *)
(***************************************************************************)
\* The key is present (live): it has a value and no deadline at or before t.
Present(d, t, k) ==
    /\ k \in DOMAIN d.store
    /\ (k \in DOMAIN d.ttls => d.ttls[k] > t)

HasDeadline(d, k) == k \in DOMAIN d.ttls

\* The value a client can observe at the key: Nil when it is not present.
LiveValue(d, t, k) == IF Present(d, t, k) THEN d.store[k] ELSE Nil

Text(s) == Normal(Str(s))
T_0 == <<"0">>
T_1 == <<"1">>
T_Minus1 == <<"-", "1">>
T_Minus2 == <<"-", "2">>
T_none == <<"n", "o", "n", "e">>
T_string == <<"s", "t", "r", "i", "n", "g">>
T_list == <<"l", "i", "s", "t">>
T_set == <<"s", "e", "t">>

\* What get, ttl and type answer for key k on keyspace d at instant t.
GetOf(d, t, k) == AsResponse(get_method(d, t, k)).resp
TtlOf(d, t, k) == ttl_method(d, t, k).resp
TypeOf(d, t, k) == type_method(d, t, k).resp

\* The number of positions of the key list whose key satisfies P.
CountKeys(keys, P(_)) == Cardinality({i \in 1..Len(keys) : P(keys[i])})

(***************************************************************************)
(* C1.  A key is present exactly when it has a stored value and no         *)
(* deadline, or a deadline strictly later than now (a deadline equal to    *)
(* now is expired).  For a key that is not present get returns nil, exists *)
(* counts 0, type returns "none" and ttl returns "-2"; a present key gets  *)
(* none of these answers.                                                  *)
(***************************************************************************)
C1_PresenceDecidesReads ==
    /\ cmd.op = "get" => (resp = Normal(Nil) <=> ~Present(old, now, cmd.key))
    /\ cmd.op = "exists" =>
           resp = Text(usize_to_string(CountKeys(cmd.keys, LAMBDA k : Present(old, now, k))))
    /\ cmd.op = "type" => (~Present(old, now, cmd.key) => resp = Text(T_none))
    /\ cmd.op = "ttl" => (resp = Text(T_Minus2) <=> ~Present(old, now, cmd.key))
    /\ cmd.op \in {"get", "type", "ttl"} => Present(db, now, cmd.key) = Present(old, now, cmd.key)

\* get has answered nil for a key whose stored deadline is exactly now.
C1_Witness ==
    /\ cmd.op = "get"
    /\ cmd.key \in DOMAIN old.store
    /\ HasDeadline(old, cmd.key)
    /\ old.ttls[cmd.key] = now
    /\ resp = Normal(Nil)

(***************************************************************************)
(* C2.  After set(k,v), whatever k held before, set has returned "Ok", the *)
(* next get(k) (now or at any later instant) returns the string v and      *)
(* ttl(k) returns "-1".                                                    *)
(***************************************************************************)
C2_SetThenGet ==
    cmd.op = "set" =>
        /\ resp = Text(S_Ok)
        /\ \A t \in now..MaxTime :
               /\ GetOf(db, t, cmd.key) = Normal(Str(cmd.value))
               /\ TtlOf(db, t, cmd.key) = Text(T_Minus1)

\* set has overwritten a live list that had a deadline.
C2_Witness ==
    /\ cmd.op = "set"
    /\ Present(old, now, cmd.key)
    /\ old.store[cmd.key].type = "list"
    /\ HasDeadline(old, cmd.key)

(***************************************************************************)
(* C3.  After set(k,v) and expire(k,d), d > 0, at the same instant T, with *)
(* no other write to k, get(k) returns v at every instant before T + d and *)
(* nil at every instant from T + d on.  Stated at the return of set (the   *)
(* expire that follows at once) and at the return of every expire that     *)
(* found the string v live at k.                                           *)
(***************************************************************************)
ReadsUntil(d, k, v, deadline) ==
    \A t \in now..(MaxTime + TicksPerSec + 1) :
        GetOf(d, t, k) = IF t < deadline THEN Normal(Str(v)) ELSE Normal(Nil)

C3_ExpireAfterSet ==
    /\ cmd.op = "set" =>
           \A dur \in Durations \ {0} :
               LET e == expire_method(db, now, cmd.key, dur)
               IN  /\ e.resp = Text(T_1)
                   /\ ReadsUntil(e.db, cmd.key, cmd.value, now + dur)
    /\ (/\ cmd.op = "expire"
        /\ cmd.ttl > 0
        /\ Present(old, now, cmd.key)
        /\ old.store[cmd.key].type = "string") =>
           /\ resp = Text(T_1)
           /\ ReadsUntil(db, cmd.key, old.store[cmd.key].s, now + cmd.ttl)

\* expire with a positive duration has returned "1" for a string written at
\* this very instant and not at the epoch.
C3_Witness ==
    /\ cmd.op = "expire"
    /\ cmd.ttl > 0
    /\ now > 0
    /\ Present(old, now, cmd.key)
    /\ old.store[cmd.key].type = "string"
    /\ ~HasDeadline(old, cmd.key)
    /\ old.last_access[cmd.key] = now
    /\ resp = Text(T_1)

(***************************************************************************)
(* C4.  Every command that successfully changes the value stored at a live *)
(* key clears the deadline the key had: ttl(k) returns "-1" after it.      *)
(***************************************************************************)
ValueWriters ==
    {"set", "getset", "append", "incrby", "decrby", "lpush", "rpush", "lpushx",
     "rpushx", "lpop", "rpop", "lrem", "lset", "sadd", "srem"}

ClearsDeadline(k) ==
    (/\ Present(old, now, k)
     /\ HasDeadline(old, k)
     /\ k \in DOMAIN db.store
     /\ db.store[k] # old.store[k]) => TtlOf(db, now, k) = Text(T_Minus1)

C4_WritesClearDeadline ==
    /\ (cmd.op \in ValueWriters /\ resp.kind = "Normal") => ClearsDeadline(cmd.key)
    /\ cmd.op = "mset" =>
           \A i \in 1..Len(cmd.key_values) : ClearsDeadline(cmd.key_values[i][1])

(***************************************************************************)
(* C5.  A write command other than set and mset, sent to a live key that   *)
(* holds a value of another type than the command's, returns a type error  *)
(* and leaves the key with the value and type it had.                      *)
(***************************************************************************)
TypeOfCommand(op) ==
    CASE op \in {"append", "incrby", "decrby", "getset", "getdel"} -> "string"
      [] op \in {"lpush", "rpush", "lpushx", "rpushx", "lpop", "rpop", "lrem", "lset"} -> "list"
      [] op \in {"sadd", "srem"} -> "set"

TypedWriters ==
    {"append", "incrby", "decrby", "getset", "getdel", "lpush", "rpush", "lpushx",
     "rpushx", "lpop", "rpop", "lrem", "lset", "sadd", "srem"}

C5_WrongTypeRejected ==
    (/\ cmd.op \in TypedWriters
     /\ Present(old, now, cmd.key)
     /\ old.store[cmd.key].type # TypeOfCommand(cmd.op)) =>
        /\ resp.kind = "Error"
        /\ resp.msg \in {WRONGTYPE_MSG, WRONGTYPE_SET_MSG}
        /\ Present(db, now, cmd.key)
        /\ db.store[cmd.key] = old.store[cmd.key]

(***************************************************************************)
(* C6.  In every reachable state type(k) is one of "string", "list",       *)
(* "set", "none", it is "none" exactly when k is absent, and no key has    *)
(* the Nil value stored.                                                   *)
(***************************************************************************)
C6_TypeOfKey ==
    /\ \A k \in DOMAIN db.store : db.store[k].type \in {"string", "list", "set"}
    /\ \A k \in Keys :
           /\ TypeOf(db, now, k) \in {Text(T_string), Text(T_list), Text(T_set), Text(T_none)}
           /\ TypeOf(db, now, k) = Text(T_none) <=> ~Present(db, now, k)
    /\ cmd.op = "type" =>
           /\ resp \in {Text(T_string), Text(T_list), Text(T_set), Text(T_none)}
           /\ resp = Text(T_none) <=> ~Present(old, now, cmd.key)
           /\ Present(old, now, cmd.key) =>
                  resp = Text(CASE old.store[cmd.key].type = "string" -> T_string
                                [] old.store[cmd.key].type = "list" -> T_list
                                [] old.store[cmd.key].type = "set" -> T_set)

\* type has answered "set" for a live set.
C6_Witness ==
    /\ cmd.op = "type"
    /\ Present(old, now, cmd.key)
    /\ old.store[cmd.key].type = "set"
    /\ resp = Text(T_set)

(***************************************************************************)
(* C7.  del(keys) returns the number of named keys that were present and   *)
(* are removed by the call; for a live key del returns "1" and a del that  *)
(* follows at once returns "0"; after del(k), get(k) returns nil and k has *)
(* no deadline.                                                            *)
(***************************************************************************)
C7_DelCountsPresentKeys ==
    cmd.op = "del" =>
        /\ resp = Text(usize_to_string(
                      Cardinality({k \in {cmd.keys[i] : i \in 1..Len(cmd.keys)} :
                                       Present(old, now, k)})))
        /\ \A i \in 1..Len(cmd.keys) :
               /\ GetOf(db, now, cmd.keys[i]) = Normal(Nil)
               /\ ~HasDeadline(db, cmd.keys[i])
               /\ del_method(db, now, <<cmd.keys[i]>>).resp = Text(T_0)

(***************************************************************************)
(* C8.  persist(k): on a live key with a deadline it returns "1", removes  *)
(* the deadline and leaves the value; on a live key without deadline or an *)
(* absent key it returns "0" and changes neither value nor presence; on a  *)
(* key whose deadline has passed it returns "0" and the key is absent      *)
(* afterwards.                                                             *)
(***************************************************************************)
C8_Persist ==
    cmd.op = "persist" =>
        LET k == cmd.key
        IN  /\ (Present(old, now, k) /\ HasDeadline(old, k)) =>
                   /\ resp = Text(T_1)
                   /\ ~HasDeadline(db, k)
                   /\ Present(db, now, k)
                   /\ db.store[k] = old.store[k]
            /\ (Present(old, now, k) /\ ~HasDeadline(old, k)) =>
                   /\ resp = Text(T_0)
                   /\ db = old
            /\ k \notin DOMAIN old.store =>
                   /\ resp = Text(T_0)
                   /\ db = old
            /\ (k \in DOMAIN old.store /\ ~Present(old, now, k)) =>
                   /\ resp = Text(T_0)
                   /\ k \notin DOMAIN db.store
                   /\ ~HasDeadline(db, k)
                   /\ \A t \in now..MaxTime : GetOf(db, t, k) = Normal(Nil)

\* persist has returned "1" for a live key with a deadline.
C8_Witness ==
    /\ cmd.op = "persist"
    /\ Present(old, now, cmd.key)
    /\ HasDeadline(old, cmd.key)
    /\ resp = Text(T_1)

(***************************************************************************)
(* C9.  ttl(k) returns "-2" when k is absent or expired, "-1" when k is    *)
(* live without a deadline, and otherwise the whole number of seconds,     *)
(* rounded down, from now to the deadline.                                 *)
(***************************************************************************)
WholeSeconds(ticks) == CHOOSE n \in 0..ticks : n * TicksPerSec <= ticks /\ ticks < (n + 1) * TicksPerSec

C9_Ttl ==
    cmd.op = "ttl" =>
        LET k == cmd.key
        IN  resp = IF ~Present(old, now, k) THEN Text(T_Minus2)
                   ELSE IF ~HasDeadline(old, k) THEN Text(T_Minus1)
                   ELSE Text(usize_to_string(WholeSeconds(old.ttls[k] - now)))

\* ttl has answered "0" for a live key whose deadline is less than a second
\* away.
C9_Witness ==
    /\ cmd.op = "ttl"
    /\ Present(old, now, cmd.key)
    /\ HasDeadline(old, cmd.key)
    /\ old.ttls[cmd.key] - now < TicksPerSec
    /\ resp = Text(T_0)

(***************************************************************************)
(* C10.  copy(src,dst) returns "0" and changes no value when dst is live   *)
(* or src is absent (src = dst included); otherwise it returns "1", dst    *)
(* then holds a value equal to the one of src, of the same type, and src   *)
(* still holds its value.                                                  *)
(***************************************************************************)
C10_Copy ==
    cmd.op = "copy" =>
        LET src == cmd.key_origin
            dst == cmd.key_destination
        IN  IF Present(old, now, dst) \/ ~Present(old, now, src)
            THEN /\ resp = Text(T_0)
                 /\ \A k \in PairKeys : LiveValue(db, now, k) = LiveValue(old, now, k)
            ELSE /\ resp = Text(T_1)
                 /\ LiveValue(db, now, dst) = old.store[src]
                 /\ LiveValue(db, now, dst).type = old.store[src].type
                 /\ LiveValue(db, now, src) = old.store[src]

\* copy has returned "1" for a live set, onto a destination whose expired
\* entry was still stored.
C10_Witness ==
    /\ cmd.op = "copy"
    /\ Present(old, now, cmd.key_origin)
    /\ old.store[cmd.key_origin].type = "set"
    /\ cmd.key_destination \in DOMAIN old.store
    /\ ~Present(old, now, cmd.key_destination)
    /\ resp = Text(T_1)

(***************************************************************************)
(* C11.  After rename(src,dst), src # dst, on a live src, whatever the     *)
(* type of its value: src is absent, dst holds the value src held, and dst *)
(* has no deadline (ttl "-1"), even when src had one.                      *)
(***************************************************************************)
Renamed(src, dst) ==
    /\ ~Present(db, now, src)
    /\ LiveValue(db, now, dst) = old.store[src]
    /\ TtlOf(db, now, dst) = Text(T_Minus1)

C11_Rename ==
    (/\ cmd.op = "rename"
     /\ cmd.key_origin # cmd.key_destination
     /\ Present(old, now, cmd.key_origin)) => Renamed(cmd.key_origin, cmd.key_destination)

\* The same for a src that holds a string.
C11_RenameOfString ==
    (/\ cmd.op = "rename"
     /\ cmd.key_origin # cmd.key_destination
     /\ Present(old, now, cmd.key_origin)
     /\ old.store[cmd.key_origin].type = "string") =>
        /\ resp = Text(S_Ok)
        /\ Renamed(cmd.key_origin, cmd.key_destination)

\* rename has moved a live string that had a deadline onto a live key of
\* another type.
C11_Witness ==
    /\ cmd.op = "rename"
    /\ cmd.key_origin # cmd.key_destination
    /\ Present(old, now, cmd.key_origin)
    /\ old.store[cmd.key_origin].type = "string"
    /\ HasDeadline(old, cmd.key_origin)
    /\ Present(old, now, cmd.key_destination)
    /\ old.store[cmd.key_destination].type # "string"
    /\ resp = Text(S_Ok)

(***************************************************************************)
(* C12.  lpush prepends its values one by one (the last-named value ends   *)
(* at index 0) and rpush appends them in order, on an absent key as on a   *)
(* list built by earlier pushes; each push returns the new length;         *)
(* lindex(k,0) is the last head-pushed element and lindex(k,-1) the last   *)
(* tail-pushed one.                                                        *)
(***************************************************************************)
RECURSIVE PrependOneByOne(_, _)
PrependOneByOne(list, values) ==
    IF values = <<>> THEN list
    ELSE PrependOneByOne(<<Head(values)>> \o list, Tail(values))

\* The list a client sees at k: empty when the key is not present.
ListBefore(k) == IF Present(old, now, k) THEN old.store[k].l ELSE <<>>

C12_PushOrder ==
    (/\ cmd.op \in {"lpush", "rpush"}
     /\ Present(old, now, cmd.key) => old.store[cmd.key].type = "list") =>
        LET k == cmd.key
            v == cmd.value
            expected == IF cmd.op = "lpush" THEN PrependOneByOne(ListBefore(k), v)
                        ELSE ListBefore(k) \o v
        IN  /\ resp = Text(usize_to_string(Len(expected)))
            /\ LiveValue(db, now, k) = List(expected)
            /\ cmd.op = "lpush" => lindex_method(db, now, k, 0).resp = Text(v[Len(v)])
            /\ cmd.op = "rpush" => lindex_method(db, now, k, 0 - 1).resp = Text(v[Len(v)])

\* lpush has put two different values on an absent key.
C12_Witness ==
    /\ cmd.op = "lpush"
    /\ ~Present(old, now, cmd.key)
    /\ Len(cmd.value) = 2
    /\ cmd.value[1] # cmd.value[2]
    /\ db.store[cmd.key] = List(<<cmd.value[2], cmd.value[1]>>)

(***************************************************************************)
(* C13.  On a non-empty list of length n, lpop/rpop with count = 0 removes *)
(* one element (the head for lpop, the tail for rpop) and returns it as a  *)
(* string; with count >= 1 it removes min(count, n) elements from the head *)
(* (lpop) or the tail (rpop) and returns them as a list in removal order,  *)
(* also when that list has a single element.                               *)
(***************************************************************************)
PopsFromList ==
    /\ cmd.op \in {"lpop", "rpop"}
    /\ Present(old, now, cmd.key)
    /\ old.store[cmd.key].type = "list"
    /\ old.store[cmd.key].l # <<>>

\* How many elements the pop takes, which ones in removal order, and what stays.
PopQty == IF cmd.count = 0 THEN 1 ELSE Min(cmd.count, Len(old.store[cmd.key].l))

Popped ==
    LET l == old.store[cmd.key].l
    IN  IF cmd.op = "lpop" THEN SubSeq(l, 1, PopQty)
        ELSE [i \in 1..PopQty |-> l[Len(l) + 1 - i]]

PopRest ==
    LET l == old.store[cmd.key].l
    IN  IF cmd.op = "lpop" THEN SubSeq(l, PopQty + 1, Len(l))
        ELSE SubSeq(l, 1, Len(l) - PopQty)

C13_Pop ==
    PopsFromList =>
        /\ resp = IF cmd.count = 0 THEN Text(Popped[1]) ELSE Normal(List(Popped))
        /\ LiveValue(db, now, cmd.key) = List(PopRest)

\* The same, but for the answer when an explicit count takes one element.
C13_PopButSingle ==
    PopsFromList =>
        /\ resp = IF PopQty = 1 THEN Text(Popped[1]) ELSE Normal(List(Popped))
        /\ LiveValue(db, now, cmd.key) = List(PopRest)

(***************************************************************************)
(* C14.  lpop/rpop with a count larger than the list length returns the    *)
(* full list and leaves the key present with an empty list (type "list",   *)
(* llen "0"); a later lpop or rpop on that empty list, with any count, the *)
(* default 0 included, returns nil.                                        *)
(***************************************************************************)
PopsFromEmptyList ==
    /\ cmd.op \in {"lpop", "rpop"}
    /\ Present(old, now, cmd.key)
    /\ old.store[cmd.key] = List(<<>>)

C14_PopBeyondLength ==
    /\ (PopsFromList /\ cmd.count > Len(old.store[cmd.key].l)) =>
           /\ resp = Normal(List(Popped))
           /\ Present(db, now, cmd.key)
           /\ db.store[cmd.key] = List(<<>>)
           /\ TypeOf(db, now, cmd.key) = Text(T_list)
           /\ llen_method(db, now, cmd.key).resp = Text(T_0)
    /\ PopsFromEmptyList => resp = Normal(Nil)

\* Its second half alone: a pop on an empty list returns nil.
C14_PopOnEmptyList == PopsFromEmptyList => resp = Normal(Nil)

\* Its first half for lists of two elements or more, and the second half
\* for an explicit count.
C14_PopBeyondLengthOfSeveral ==
    /\ (PopsFromList /\ cmd.count > Len(old.store[cmd.key].l) /\ Len(old.store[cmd.key].l) > 1) =>
           /\ resp = Normal(List(Popped))
           /\ Present(db, now, cmd.key)
           /\ db.store[cmd.key] = List(<<>>)
           /\ TypeOf(db, now, cmd.key) = Text(T_list)
           /\ llen_method(db, now, cmd.key).resp = Text(T_0)
    /\ (PopsFromEmptyList /\ cmd.count > 0) => resp = Normal(Nil)

(***************************************************************************)
(* C15.  For a list of length n at k, lset(k,i,v) with -n <= i < n puts v  *)
(* at position i (a negative i counted from the end), leaves every other   *)
(* element and returns "Ok"; for every other i, i = n included, it returns *)
(* `ERR index out of range` and leaves the list; on an absent key it       *)
(* returns `ERR no such key`.                                              *)
(***************************************************************************)
LsetOnList ==
    /\ cmd.op = "lset"
    /\ Present(old, now, cmd.key)
    /\ old.store[cmd.key].type = "list"

LsetAnswers ==
    LET l == old.store[cmd.key].l
        n == Len(l)
        i == cmd.index
        at == IF i < 0 THEN i + n + 1 ELSE i + 1
    IN  IF 0 - n <= i /\ i < n
        THEN /\ resp = Text(S_Ok)
             /\ LiveValue(db, now, cmd.key) =
                    List([j \in 1..n |-> IF j = at THEN cmd.element ELSE l[j]])
        ELSE /\ resp = Error("ERR index out of range")
             /\ LiveValue(db, now, cmd.key) = List(l)

C15_Lset ==
    /\ LsetOnList => LsetAnswers
    /\ (cmd.op = "lset" /\ ~Present(old, now, cmd.key)) =>
           /\ resp = Error("ERR no such key")
           /\ ~Present(db, now, cmd.key)

\* The same for every index but the length of the list.
C15_LsetButAtLength ==
    /\ (LsetOnList /\ cmd.index # Len(old.store[cmd.key].l)) => LsetAnswers
    /\ (cmd.op = "lset" /\ ~Present(old, now, cmd.key)) =>
           /\ resp = Error("ERR no such key")
           /\ ~Present(db, now, cmd.key)

(***************************************************************************)
(* C16.  lrem(k,count,e) with count > 0 removes the first min(count,       *)
(* occurrences) occurrences of e from the head, with count < 0 the last    *)
(* min(|count|, occurrences) from the tail; no more than |count| elements  *)
(* are removed, the others keep their order, and the number returned is    *)
(* the number of elements removed.                                         *)
(***************************************************************************)
Occurrences(l, e) == Cardinality({i \in 1..Len(l) : l[i] = e})

\* l without its first c occurrences of e.
RECURSIVE WithoutFirst(_, _, _)
WithoutFirst(l, e, c) ==
    IF l = <<>> \/ c = 0 THEN l
    ELSE IF Head(l) = e THEN WithoutFirst(Tail(l), e, c - 1)
         ELSE <<Head(l)>> \o WithoutFirst(Tail(l), e, c)

Abs(n) == IF n < 0 THEN 0 - n ELSE n

LremOnList ==
    /\ cmd.op = "lrem"
    /\ Present(old, now, cmd.key)
    /\ old.store[cmd.key].type = "list"

LremAnswers ==
    LET l == old.store[cmd.key].l
        e == cmd.element
        removed == Min(Abs(cmd.count), Occurrences(l, e))
        left == IF cmd.count > 0 THEN WithoutFirst(l, e, removed)
                ELSE reverse(WithoutFirst(reverse(l), e, removed))
    IN  /\ resp = Text(usize_to_string(removed))
        /\ LiveValue(db, now, cmd.key) = List(left)
        /\ Len(l) - Len(left) <= Abs(cmd.count)

C16_LremCounted == (LremOnList /\ cmd.count # 0) => LremAnswers

\* The same for the lists that hold the element at most once.
C16_LremOfSingleOccurrence ==
    (/\ LremOnList
     /\ cmd.count # 0
     /\ Occurrences(old.store[cmd.key].l, cmd.element) <= 1) => LremAnswers

\* The bound alone: lrem removes no more than |count| elements.
C16_LremWithinCount ==
    (LremOnList /\ cmd.count # 0) =>
        Len(old.store[cmd.key].l) - Len(db.store[cmd.key].l) <= Abs(cmd.count)

(***************************************************************************)
(* C17.  lrem(k,0,e) removes every occurrence of e from the list at k,     *)
(* adjacent ones included, keeps the other elements in order and returns   *)
(* the number of occurrences the list held; on an absent key it returns    *)
(* "0".                                                                    *)
(***************************************************************************)
LremAllAnswers ==
    LET l == old.store[cmd.key].l
        e == cmd.element
    IN  /\ resp = Text(usize_to_string(Occurrences(l, e)))
        /\ LiveValue(db, now, cmd.key) = List(SelectSeq(l, LAMBDA x : x # e))
        /\ Occurrences(db.store[cmd.key].l, e) = 0

C17_LremAll ==
    /\ (LremOnList /\ cmd.count = 0) => LremAllAnswers
    /\ (cmd.op = "lrem" /\ ~Present(old, now, cmd.key)) =>
           /\ resp = Text(T_0)
           /\ ~Present(db, now, cmd.key)

\* The same for the lists in which no two occurrences are adjacent.
C17_LremAllOfSeparated ==
    /\ (/\ LremOnList
        /\ cmd.count = 0
        /\ \A i \in 1..(Len(old.store[cmd.key].l) - 1) :
               ~(old.store[cmd.key].l[i] = cmd.element /\ old.store[cmd.key].l[i + 1] = cmd.element))
           => LremAllAnswers
    /\ (cmd.op = "lrem" /\ ~Present(old, now, cmd.key)) =>
           /\ resp = Text(T_0)
           /\ ~Present(db, now, cmd.key)

(***************************************************************************)
(* C18.  sadd(k,V) makes the set at k the union of its members (none when  *)
(* k was absent) and V and returns the number of members of V that were    *)
(* not in it; srem(k,V) removes the members of V and returns the number    *)
(* that were in it ("0" on an absent key); scard returns the number of     *)
(* members, sismember "1" for a member and "0" for any other value.        *)
(***************************************************************************)
HoldsSet(k) == Present(old, now, k) /\ old.store[k].type = "set"

MembersBefore(k) == IF Present(old, now, k) THEN old.store[k].m ELSE {}

C18_SetArithmetic ==
    LET k == cmd.key
    IN  /\ (cmd.op = "sadd" /\ (HoldsSet(k) \/ ~Present(old, now, k))) =>
               /\ LiveValue(db, now, k) = Set(MembersBefore(k) \cup cmd.values)
               /\ resp = Text(usize_to_string(Cardinality(cmd.values \ MembersBefore(k))))
        /\ (cmd.op = "srem" /\ HoldsSet(k)) =>
               /\ LiveValue(db, now, k) = Set(MembersBefore(k) \ cmd.values)
               /\ resp = Text(usize_to_string(Cardinality(cmd.values \cap MembersBefore(k))))
        /\ (cmd.op = "srem" /\ ~Present(old, now, k)) =>
               /\ resp = Text(T_0)
               /\ ~Present(db, now, k)
        /\ (cmd.op = "scard" /\ HoldsSet(k)) =>
               /\ resp = Text(usize_to_string(Cardinality(old.store[k].m)))
               /\ LiveValue(db, now, k) = old.store[k]
        /\ (cmd.op = "sismember" /\ HoldsSet(k)) =>
               /\ resp = Text(IF cmd.value \in old.store[k].m THEN T_1 ELSE T_0)
               /\ LiveValue(db, now, k) = old.store[k]

\* sadd has added one new member to a set that already held another of the
\* values named.
C18_Witness ==
    /\ cmd.op = "sadd"
    /\ HoldsSet(cmd.key)
    /\ cmd.values \cap old.store[cmd.key].m # {}
    /\ cmd.values \ old.store[cmd.key].m # {}
    /\ resp = Text(T_1)
    /\ db.store[cmd.key].m = Elems

(***************************************************************************)
(* C19.  incrby(k,n) / decrby(k,n): when k is absent, get(k) is afterwards *)
(* the decimal string of n (of -n for decrby); when k holds a string that  *)
(* is not a decimal integer, the command returns `ERR value is not an      *)
(* integer or out of range` and k is unchanged; when k holds the decimal   *)
(* integer v, get(k) is afterwards the decimal string of v+n (of v-n).     *)
(***************************************************************************)
\* x in 0..99999 written with five digits.
FiveDigits(x) ==
    <<Digits[((x \div 10000) % 10) + 1], Digits[((x \div 1000) % 10) + 1],
      Digits[((x \div 100) % 10) + 1], Digits[((x \div 10) % 10) + 1], Digits[(x % 10) + 1]>>

\* The decimal string of h * 10^5 + l, for h >= 0 and l in 0..99999.
DecimalOfLimbs(h, l) == IF h = 0 THEN usize_to_string(l) ELSE usize_to_string(h) \o FiveDigits(l)

\* The decimal string of the exact v + sign * n, for an i32 v, a u32 n and
\* sign 1 or -1, computed in two limbs of five decimal digits so that no
\* intermediate value leaves the range of the integers.
ExactDecimal(v, n, sign) ==
    LET B == 100000
        nH == n.hi * 21474 + (n.lo \div B)
        nL == n.hi * 83648 + (n.lo % B)
        H == (v \div B) + sign * nH
        L == (v % B) + sign * nL
        h == H + (L \div B)
        l == L % B
    IN  IF h >= 0 THEN DecimalOfLimbs(h, l)
        ELSE IF l = 0 THEN <<"-">> \o DecimalOfLimbs(0 - h, 0)
        ELSE <<"-">> \o DecimalOfLimbs((0 - h) - 1, B - l)

\* An optional sign and then one or more digits.
IsDecimalInteger(s) ==
    LET body == IF s # <<>> /\ s[1] \in {"+", "-"} THEN Tail(s) ELSE s
    IN  body # <<>> /\ \A i \in 1..Len(body) : IsDigit(body[i])

IncrAmount == IF cmd.op = "incrby" THEN cmd.increment ELSE cmd.decrement
IncrSign == IF cmd.op = "incrby" THEN 1 ELSE 0 - 1

IncrAnswers ==
    LET k == cmd.key
    IN  IF ~Present(old, now, k)
        THEN GetOf(db, now, k) = Text(ExactDecimal(0, IncrAmount, IncrSign))
        ELSE IF ~IsDecimalInteger(old.store[k].s)
        THEN /\ resp = Error(OUT_OF_RANGE_MSG)
             /\ LiveValue(db, now, k) = old.store[k]
             /\ db.ttls = old.ttls
        ELSE GetOf(db, now, k) =
                 Text(ExactDecimal(parse_i32(old.store[k].s).val, IncrAmount, IncrSign))

IncrOnStringOrAbsent ==
    /\ cmd.op \in {"incrby", "decrby"}
    /\ Present(old, now, cmd.key) => old.store[cmd.key].type = "string"

C19_IncrbyDecrby == IncrOnStringOrAbsent => IncrAnswers

\* The exact result is within the range of i32 and the amount below 2^31.
IncrInRange ==
    LET v == IF Present(old, now, cmd.key) /\ IsDecimalInteger(old.store[cmd.key].s)
             THEN parse_i32(old.store[cmd.key].s).val ELSE 0
        n == IncrAmount.lo
    IN  /\ IncrAmount.hi = 0
        /\ IF cmd.op = "incrby" THEN v <= I32_MAX - n ELSE v >= I32_MIN + n

\* The same for the amounts and results within the range of i32.
C19_IncrbyDecrbyInRange == (IncrOnStringOrAbsent /\ IncrInRange) => IncrAnswers

(***************************************************************************)
(* C20.  lpushx and rpushx change the keyspace only when the key holds a   *)
(* list: on an absent key each returns "0" and stores nothing, the key is  *)
(* still absent (type "none", dbsize as before); on a list they do what    *)
(* lpush and rpush do.                                                     *)
(***************************************************************************)
PushxAnswers ==
    LET k == cmd.key
    IN  /\ ~Present(old, now, k) =>
               /\ resp = Text(T_0)
               /\ ~Present(db, now, k)
               /\ TypeOf(db, now, k) = Text(T_none)
               /\ k \notin DOMAIN old.store => dbsize_method(db).resp = dbsize_method(old).resp
        /\ (Present(old, now, k) /\ old.store[k].type = "list") =>
               LET push == IF cmd.op = "lpushx" THEN lpush_method(old, now, k, cmd.value)
                           ELSE rpush_method(old, now, k, cmd.value)
               IN  /\ resp = push.resp
                   /\ db = push.db

C20_PushxOnlyOnList == cmd.op \in {"lpushx", "rpushx"} => PushxAnswers

\* The same for rpushx alone.
C20_RpushxOnlyOnList == cmd.op = "rpushx" => PushxAnswers

(***************************************************************************)
(* Lazy expiration.                                                        *)
(***************************************************************************)
\* The key holds a value whose deadline has passed and that no access has
\* removed yet.
Unswept(d, t, k) ==
    /\ k \in DOMAIN d.store
    /\ k \in DOMAIN d.ttls
    /\ d.ttls[k] <= t

\* The key has no value, no deadline and no last access.
Gone(d, k) ==
    /\ k \notin DOMAIN d.store
    /\ k \notin DOMAIN d.ttls
    /\ k \notin DOMAIN d.last_access

\* The key holds a value stored at instant t, without deadline.
Fresh(d, t, k) ==
    /\ k \in DOMAIN d.store
    /\ k \notin DOMAIN d.ttls
    /\ k \in DOMAIN d.last_access
    /\ d.last_access[k] = t

\* The command names the key.
Named(c, k) ==
    \/ "key" \in DOMAIN c /\ c.key = k
    \/ "keys" \in DOMAIN c /\ \E i \in 1..Len(c.keys) : c.keys[i] = k

DbsizeOf(d) == dbsize_method(d).resp

\* The accesses that store nothing at a key they do not find.
SweepingOps ==
    {"get", "exists", "ttl", "type", "expire", "expireat", "persist", "touch",
     "getdel", "strlen", "lindex", "llen", "lpop", "rpop", "lrem", "lset",
     "rpushx", "scard", "sismember", "srem"}

\* The writes that store a value at a key they do not find.
StoringOps ==
    {"set", "getset", "mset", "append", "incrby", "decrby",
     "lpush", "rpush", "lpushx", "sadd"}

\* The accesses the claim names: the seven of its list and the reads and
\* writes of one type.
TypedOps ==
    {"get", "exists", "ttl", "type", "expire", "persist", "touch",
     "strlen", "append", "incrby", "decrby",
     "lindex", "llen", "lpop", "rpop", "lrem", "lset",
     "lpush", "rpush", "lpushx", "rpushx",
     "scard", "sismember", "sadd", "srem"}

SnapshotOf(d, bytes) ==
    \E keys \in Orders(DOMAIN d.store), sets \in SetOrders(d) :
        bytes = serialize(d, keys, sets)

\* load is returning, and the file it read was a snapshot of the keyspace
\* the server held.
LoadsOwnSnapshot == cmd.op = "load" /\ fs.some /\ SnapshotOf(old, fs.val)

\* Every deadline of the keyspace is strictly after t.
FutureDeadlines(d, t) == \A k \in DOMAIN d.ttls : d.ttls[k] > t

\* The second in which the instant lies, counted from the epoch.
SecondOf(instant) == (instant - UNIX_EPOCH) \div TicksPerSec

\* Same keys, equal values, same deadlines to the second.
SameKeyspace(d, e) ==
    /\ DOMAIN d.store = DOMAIN e.store
    /\ \A k \in DOMAIN d.store : d.store[k] = e.store[k]
    /\ DOMAIN d.ttls = DOMAIN e.ttls
    /\ \A k \in DOMAIN d.ttls : SecondOf(d.ttls[k]) = SecondOf(e.ttls[k])

(***************************************************************************)
(* C22.  A keyspace of strings, lists and sets whose deadlines are all     *)
(* strictly in the future comes back from deserialize(serialize(ks)): the  *)
(* decoding succeeds and yields the same keys, equal values (lists in      *)
(* order, sets as sets) and the same deadlines to the second.              *)
(***************************************************************************)
C22_RoundTrip ==
    (LoadsOwnSnapshot /\ FutureDeadlines(old, now)) =>
        /\ resp = Normal(Str(S_Ok))
        /\ SameKeyspace(db, old)

\* The round trip holds when every deadline is in a second after the one
\* of the clock.
C22_RoundTripOfLaterSeconds ==
    (LoadsOwnSnapshot /\ \A k \in DOMAIN old.ttls : SecondOf(old.ttls[k]) > SecondOf(now)) =>
        /\ resp = Normal(Str(S_Ok))
        /\ SameKeyspace(db, old)

\* A snapshot with a deadline of a later second was read back.
C22_LaterSecondsLoaded ==
    /\ LoadsOwnSnapshot
    /\ old.ttls # EmptyMap
    /\ \A k \in DOMAIN old.ttls : SecondOf(old.ttls[k]) > SecondOf(now)

(***************************************************************************)
(* C23.  For every length n from 0 to 2^32 - 1, length_decode of           *)
(* length_encode(n) is n, and length_encode yields 1 byte for n < 64, 2    *)
(* bytes for 64 <= n < 16384 and 5 bytes, the first 0x80, for the others;  *)
(* so at 63, 64, 16383 and 16384.                                          *)
(***************************************************************************)
C23_LengthRoundTrip ==
    /\ cmd.op = "length_encode" =>
           LET n == cmd.length
           IN  /\ (n.hi = 0 /\ n.lo < 64) => Len(resp.bytes) = 1
               /\ (n.hi = 0 /\ 64 <= n.lo /\ n.lo < 16384) => Len(resp.bytes) = 2
               /\ (n.hi = 1 \/ n.lo >= 16384) =>
                      Len(resp.bytes) = 5 /\ resp.bytes[1] = 128
    /\ cmd.op = "length_decode" =>
           /\ resp.decoded.ret = Some(cmd.length)
           /\ resp.decoded.rest = <<>>

\* 2^32 - 1 was encoded in five bytes and decoded.
C23_Witness ==
    /\ cmd.op = "length_decode"
    /\ cmd.length = U32(1, I32_MAX)
    /\ Len(cmd.bytes) = 5
    /\ resp.decoded.ret = Some(U32(1, I32_MAX))

\* The EXPIRE record of the key carries a second that is not after the clock.
PastRecord(d, t, k) == k \in DOMAIN d.ttls /\ SecondOf(d.ttls[k]) <= SecondOf(t)

(***************************************************************************)
(* C24.  When a snapshot is decoded, the value record that follows an      *)
(* EXPIRE record with a deadline in the past is discarded: its key is      *)
(* absent from the keyspace decoded, with or without deadline, and the     *)
(* records after it are decoded as usual.                                  *)
(***************************************************************************)
C24_PastRecordDiscarded ==
    LoadsOwnSnapshot =>
        /\ resp = Normal(Str(S_Ok))
        /\ \A k \in DOMAIN old.store :
               IF PastRecord(old, now, k)
               THEN k \notin DOMAIN db.store /\ k \notin DOMAIN db.ttls
               ELSE /\ k \in DOMAIN db.store
                    /\ db.store[k] = old.store[k]

\* What load does with such a record: the key is loaded with its value and
\* without deadline; the other records are decoded as usual.
C24_PastRecordLoadedForEver ==
    LoadsOwnSnapshot =>
        /\ resp = Normal(Str(S_Ok))
        /\ DOMAIN db.store = DOMAIN old.store
        /\ \A k \in DOMAIN old.store :
               /\ db.store[k] = old.store[k]
               /\ PastRecord(old, now, k) => k \notin DOMAIN db.ttls
               /\ ~PastRecord(old, now, k) =>
                      /\ (k \in DOMAIN db.ttls) = (k \in DOMAIN old.ttls)
                      /\ k \in DOMAIN db.ttls => SecondOf(db.ttls[k]) = SecondOf(old.ttls[k])

(***************************************************************************)
(* The format of the snapshot, read without decoding it: the first defect  *)
(* of a byte stream.  A reader returns the defect it met, "none" when it   *)
(* met none, and the bytes after what it read.                             *)
(***************************************************************************)
Sound(s) == [defect |-> "none", rest |-> s]
Defect(d) == [defect |-> d, rest |-> <<>>]

\* A length: one byte (00), two bytes (01) or 0x80 and four bytes.
LengthAt(s) ==
    IF s = <<>> THEN [defect |-> "truncated length", val |-> U32(0, 0), rest |-> <<>>]
    ELSE CASE Head(s) \div 64 = 0 ->
                 [defect |-> "none", val |-> U32(0, Head(s)), rest |-> Tail(s)]
           [] Head(s) \div 64 = 1 ->
                 IF Len(s) < 2
                 THEN [defect |-> "truncated length", val |-> U32(0, 0), rest |-> <<>>]
                 ELSE [defect |-> "none", val |-> U32(0, (Head(s) % 64) * 256 + s[2]),
                       rest |-> SubSeq(s, 3, Len(s))]
           [] Head(s) = 128 ->
                 IF Len(s) < 5
                 THEN [defect |-> "truncated length", val |-> U32(0, 0), rest |-> <<>>]
                 ELSE [defect |-> "none", val |-> bytes_as_u32_be(SubSeq(s, 2, 5)),
                       rest |-> SubSeq(s, 6, Len(s))]
           [] OTHER -> [defect |-> "unknown length form", val |-> U32(0, 0), rest |-> <<>>]

\* A string: its length, then as many bytes, UTF-8.
StringAt(s) ==
    LET n == LengthAt(s)
    IN  IF n.defect # "none" THEN Defect(n.defect)
        ELSE IF n.val.hi = 1 \/ n.val.lo > Len(n.rest) THEN Defect("truncated payload")
        ELSE IF \E i \in 1..n.val.lo : n.rest[i] >= 128 THEN Defect("invalid utf-8")
        ELSE Sound(SubSeq(n.rest, n.val.lo + 1, Len(n.rest)))

RECURSIVE StringsAt(_, _)
StringsAt(s, n) ==
    IF n = 0 THEN Sound(s)
    ELSE LET r == StringAt(s)
         IN  IF r.defect # "none" THEN r ELSE StringsAt(r.rest, n - 1)

\* A list or a set: the number of its strings, then the strings.  A string
\* takes a byte at least: past the bytes that are left the defect is met.
ListAt(s) ==
    LET n == LengthAt(s)
    IN  IF n.defect # "none" THEN Defect(n.defect)
        ELSE StringsAt(n.rest, IF n.val.hi = 1 \/ n.val.lo > Len(n.rest)
                               THEN Len(n.rest) + 1 ELSE n.val.lo)

\* A value record: the type, the key, the value.
ValueRecordAt(s) ==
    LET key == StringAt(Tail(s))
    IN  IF key.defect # "none" THEN key
        ELSE IF Head(s) = 0 THEN StringAt(key.rest) ELSE ListAt(key.rest)

RECURSIVE RecordsAt(_)
RecordsAt(s) ==
    IF s = <<>> THEN Defect("no EOF")
    ELSE CASE Head(s) = OP_EOF ->
                 IF Tail(s) = <<>> THEN Sound(<<>>) ELSE Defect("bytes after EOF")
           [] Head(s) = OP_EXPIRETIME ->
                 IF Len(s) < 5 THEN Defect("truncated payload")
                 ELSE IF Len(s) = 5 THEN Defect("no value record")
                 ELSE IF s[6] \in {OP_EOF, OP_EXPIRETIME, OP_RESIZEDB}
                      THEN Defect("misplaced opcode")
                 ELSE IF s[6] \notin 0..2 THEN Defect("unknown value type")
                 ELSE LET r == ValueRecordAt(SubSeq(s, 6, Len(s)))
                      IN  IF r.defect # "none" THEN r ELSE RecordsAt(r.rest)
           [] Head(s) = OP_RESIZEDB -> Defect("misplaced opcode")
           [] Head(s) \in 0..2 ->
                 LET r == ValueRecordAt(s)
                 IN  IF r.defect # "none" THEN r ELSE RecordsAt(r.rest)
           [] OTHER -> Defect("unknown value type")

DefectOf(bytes) ==
    IF bytes = <<>> THEN "empty"
    ELSE CASE Head(bytes) = OP_EOF ->
                 IF Tail(bytes) = <<>> THEN "none" ELSE "bytes after EOF"
           [] Head(bytes) = OP_RESIZEDB ->
                 LET store_size == LengthAt(Tail(bytes))
                 IN  IF store_size.defect # "none" THEN store_size.defect
                     ELSE LET ttl_size == LengthAt(store_size.rest)
                          IN  IF ttl_size.defect # "none" THEN ttl_size.defect
                              ELSE RecordsAt(ttl_size.rest).defect
           [] OTHER -> "unknown opcode"

\* The defects the claim names.
NamedDefects ==
    {"truncated length", "truncated payload", "unknown opcode", "unknown value type",
     "invalid utf-8"}

(***************************************************************************)
(* C25.  Decoding a malformed byte stream (a truncated length or payload,  *)
(* an unknown opcode or value type, invalid UTF-8) returns an error and no *)
(* keyspace.  A load that fails to read or to decode returns an error and  *)
(* leaves the keyspace of the executor as it was; a load that succeeds     *)
(* replaces the whole keyspace: the keys that are not in the snapshot are  *)
(* gone.                                                                   *)
(***************************************************************************)
C25_MalformedRejected ==
    cmd.op = "load" =>
        /\ (fs.some /\ DefectOf(fs.val) \in NamedDefects) =>
               /\ ~deserialize(fs.val, now).ok
               /\ resp.kind = "Error"
        /\ ~fs.some => resp.kind = "Error"
        /\ resp.kind = "Error" => db = old
        /\ resp.kind # "Error" =>
               \A k \in DOMAIN db.store : db.last_access[k] = now

\* The same but for a length cut off the header.
C25_MalformedRejectedPastHeader ==
    cmd.op = "load" =>
        /\ (fs.some /\ DefectOf(fs.val) \in NamedDefects /\ Len(fs.val) > 2) =>
               /\ ~deserialize(fs.val, now).ok
               /\ resp.kind = "Error"
        /\ ~fs.some => resp.kind = "Error"
        /\ resp.kind = "Error" => db = old
        /\ resp.kind # "Error" =>
               /\ resp = Normal(Str(S_Ok))
               /\ db = deserialize(fs.val, now).val
               /\ \A k \in DOMAIN db.store : db.last_access[k] = now

\* A snapshot has no defect.
C25_SnapshotsAreSound == \A d \in {db, old} : fs.some /\ SnapshotOf(d, fs.val) => DefectOf(fs.val) = "none"

\* store is returning and has written the file.
Stored == cmd.op = "store" /\ resp = Normal(Str(S_Ok)) /\ fs.some

\* The stream opens with the RESIZE header of the keyspace, has no defect
\* of format (one header, every EXPIRE right before a value record, EOF as
\* its last byte) and, decoded at the epoch, before any of its deadlines,
\* yields the entries of the keyspace that have their key in keys.
Carries(bytes, d, keys) ==
    LET store_size == LengthAt(Tail(bytes))
        ttl_size == LengthAt(store_size.rest)
        decoded == deserialize(bytes, UNIX_EPOCH)
    IN  /\ Head(bytes) = OP_RESIZEDB
        /\ store_size.val = U32(0, Cardinality(DOMAIN d.store))
        /\ ttl_size.val = U32(0, Cardinality(DOMAIN d.ttls))
        /\ DefectOf(bytes) = "none"
        /\ bytes[Len(bytes)] = OP_EOF
        /\ decoded.ok
        /\ DOMAIN decoded.val.store = keys
        /\ \A k \in keys : decoded.val.store[k] = d.store[k]
        /\ DOMAIN decoded.val.ttls = keys \cap DOMAIN d.ttls
        /\ \A k \in keys \cap DOMAIN d.ttls :
               SecondOf(decoded.val.ttls[k]) = SecondOf(d.ttls[k])

(***************************************************************************)
(* C26.  serialize emits one RESIZE header (0xFB, the size of the value    *)
(* store, the number of deadlines, both length-encoded), then one record   *)
(* for every live entry and none for an entry that is not live, with 0xFD  *)
(* and the four bytes of the seconds of the deadline, big-endian, right    *)
(* before the value record of every entry that has a deadline, and 0xFF as *)
(* the last byte.                                                          *)
(***************************************************************************)
C26_RecordsOfLiveEntries ==
    Stored => Carries(fs.val, old, {k \in DOMAIN old.store : Present(old, now, k)})

\* What serialize emits: a record for every entry of the value store, live
\* or not.
C26_RecordsOfAllEntries ==
    Stored => Carries(fs.val, old, DOMAIN old.store)

(***************************************************************************)
(* Pub/sub.  In a state where a pub/sub command is returning, old_broker   *)
(* is the broker the command found.                                        *)
(***************************************************************************)
\* The senders registered on the channel, in the order of their
\* registration.
Registered(b, c) == IF c \in DOMAIN b.subscribers THEN b.subscribers[c] ELSE <<>>

\* The number of times the sender is registered in the vector.
Times(vector, x) == Cardinality({i \in 1..Len(vector) : vector[i] = x})

Copies(msg, n) == [i \in 1..n |-> msg]

\* The sinks with an open receiver among those registered in the vector.
Reached(b, vector) == {vector[i] : i \in 1..Len(vector)} \ b.closed

(***************************************************************************)
(* C27.  publish(channel, message) returns "0" and delivers nothing when   *)
(* the channel has no subscriber; otherwise it returns the number of the   *)
(* sinks registered on the channel to which the message was delivered.     *)
(***************************************************************************)
C27_PublishCounts ==
    cmd.op = "publish" =>
        LET vector == Registered(old_broker, cmd.channel)
        IN  IF vector = <<>>
            THEN resp = Text(T_0) /\ sinks = old_broker.sinks
            ELSE /\ resp = Text(usize_to_string(Cardinality(Reached(old_broker, vector))))
                 /\ \A x \in Reached(old_broker, vector) :
                        sinks[x] # old_broker.sinks[x]

\* What publish answers: "0" without subscriber, "Ok" with one or more.
C27_PublishAnswersOk ==
    cmd.op = "publish" =>
        LET vector == Registered(old_broker, cmd.channel)
        IN  IF vector = <<>>
            THEN resp = Text(T_0) /\ sinks = old_broker.sinks
            ELSE /\ resp = Text(S_Ok)
                 /\ \A x \in Reached(old_broker, vector) :
                        sinks[x] # old_broker.sinks[x]

\* A message was published on a channel with a subscriber.
C27_PublishedToSubscriber ==
    /\ cmd.op = "publish"
    /\ Reached(old_broker, Registered(old_broker, cmd.channel)) # {}

(***************************************************************************)
(* C28.  For every channel c and every sink s made by a subscribe that     *)
(* names c, be it more than once, each publish(c, m) places one copy of m  *)
(* on s and nothing on the sinks that are not subscribed to c, and s       *)
(* yields the messages of the publishes in the order of the publishes,     *)
(* also when the send to another sink fails.                               *)
(***************************************************************************)
C28_OneCopyInOrder ==
    cmd.op = "publish" =>
        LET vector == Registered(old_broker, cmd.channel)
        IN  \A s \in (DOMAIN sinks) \ closed :
                sinks[s] = IF Times(vector, s) > 0
                           THEN Append(old_broker.sinks[s], Str(cmd.message))
                           ELSE old_broker.sinks[s]

\* What publish places: one copy for each registration of the sink on the
\* channel, after what the sink held; nothing on a sink whose receiver is
\* dropped, and the other sinks are served all the same.
C28_OneCopyPerRegistration ==
    cmd.op = "publish" =>
        LET vector == Registered(old_broker, cmd.channel)
        IN  /\ DOMAIN sinks = DOMAIN old_broker.sinks
            /\ \A s \in DOMAIN sinks :
                   sinks[s] = IF s \in closed THEN old_broker.sinks[s]
                              ELSE old_broker.sinks[s]
                                       \o Copies(Str(cmd.message), Times(vector, s))

\* A publish served a sink although the receiver of another sink of the
\* channel was dropped.
C28_ServedPastDroppedSink ==
    /\ cmd.op = "publish"
    /\ \E s \in DOMAIN sinks, x \in closed :
           /\ Times(Registered(old_broker, cmd.channel), x) > 0
           /\ sinks[s] = Append(old_broker.sinks[s], Str(cmd.message))

(***************************************************************************)
(* C29.  subscribe(channels) registers a sink on every channel named,      *)
(* returns that sink as a Stream response and places on it, for each       *)
(* channel named and in the order of the names, a confirmation             *)
(* ["subscribe", channel, count], count being the number of subscriptions  *)
(* the client holds so far: 1 for the first channel, 2 for the second.     *)
(***************************************************************************)
Subscribed(count(_)) ==
    cmd.op = "subscribe" =>
        LET sen == Len(old_broker.sinks) + 1
        IN  /\ resp = Stream(sen)
            /\ DOMAIN sinks = 1..sen
            /\ \A i \in 1..Len(cmd.channels) :
                   Times(Registered(Broker, cmd.channels[i]), sen) > 0
            /\ \A c \in DOMAIN subscribers :
                   LET was == Registered(old_broker, c)
                   IN  SubSeq(subscribers[c], 1, Len(was)) = was
            /\ sinks[sen] = [i \in 1..Len(cmd.channels) |->
                                List(<<S_subscribe, cmd.channels[i], count(i)>>)]
            /\ \A s \in DOMAIN old_broker.sinks : sinks[s] = old_broker.sinks[s]

CountSoFar(i) == usize_to_string(i)
CountOne(i) == <<"1">>

C29_SubscribeConfirms == Subscribed(CountSoFar)

\* What subscribe places: the count of every confirmation is "1".
C29_SubscribeConfirmsWithOne == Subscribed(CountOne)

\* A client subscribed to two channels.
C29_SubscribedToTwo == cmd.op = "subscribe" /\ Len(cmd.channels) = 2

(***************************************************************************)
(* C30.  unsubscribe(channels, client) removes the sink of the client from *)
(* each channel named, from all the channels of the client when none is    *)
(* named: a publish on one of those channels that comes later delivers     *)
(* nothing to that sink and does not count it.                             *)
(***************************************************************************)
C30_UnsubscribeRemoves ==
    cmd.op = "unsubscribe" =>
        LET named == IF cmd.channels = <<>> THEN DOMAIN subscribers
                     ELSE {cmd.channels[i] : i \in 1..Len(cmd.channels)}
        IN  \A c \in named, m \in Messages :
                /\ Times(Registered(Broker, c), cmd.client_id) = 0
                /\ publish_method(Broker, c, m).broker.sinks[cmd.client_id]
                       = sinks[cmd.client_id]

\* What unsubscribe does: it answers an error and leaves the broker as it
\* was.
C30_UnsubscribeRefused ==
    cmd.op = "unsubscribe" =>
        /\ resp = Error("Method not implemented")
        /\ Broker = old_broker

\* A client with an open receiver unsubscribed from a channel of its own.
C30_UnsubscribedOwnChannel ==
    /\ cmd.op = "unsubscribe"
    /\ cmd.client_id \notin closed
    /\ \E i \in 1..Len(cmd.channels) :
           Times(Registered(old_broker, cmd.channels[i]), cmd.client_id) > 0

(***************************************************************************)
(* C31.  pubsub numsub with a list of channels returns a flat list with    *)
(* one (channel, count) pair for each channel requested and no pair for a  *)
(* channel that was not requested, count being the number of the sinks     *)
(* subscribed to the channel, "0" when it has none.                        *)
(***************************************************************************)
Numsub == cmd.op = "pubsub" /\ cmd.param = "numsub"

Requested == {cmd.channels[i] : i \in 1..Len(cmd.channels)}

\* The pairs of the flat list of the response.
Pairs ==
    LET l == resp.re.l
    IN  {<<l[2 * i - 1], l[2 * i]>> : i \in 1..(Len(l) \div 2)}

\* The sinks subscribed to the channel.
SinksOn(b, c) == {Registered(b, c)[i] : i \in 1..Len(Registered(b, c))}

C31_NumsubPairs ==
    Numsub =>
        /\ resp.kind = "Normal" /\ resp.re.type = "list"
        /\ Len(resp.re.l) = 2 * Cardinality(Requested)
        /\ Pairs = {<<c, usize_to_string(Cardinality(SinksOn(old_broker, c)))>> :
                       c \in Requested}

\* What numsub answers: a pair for every channel that has or had a
\* subscriber, requested or not, with the number of the registrations on
\* the channel when it was requested and "0" when it was not; no pair for
\* the other channels.
C31_NumsubPairsOfKeys ==
    Numsub =>
        /\ resp.kind = "Normal" /\ resp.re.type = "list"
        /\ Len(resp.re.l) = 2 * Cardinality(DOMAIN old_broker.subscribers)
        /\ Pairs = {<<c, IF c \in Requested
                          THEN usize_to_string(Len(old_broker.subscribers[c]))
                          ELSE <<"0">>>> : c \in DOMAIN old_broker.subscribers}
        /\ Broker = old_broker

\* numsub was asked of a broker with a subscriber on a channel.
C31_NumsubOfSubscribed ==
    Numsub /\ DOMAIN old_broker.subscribers # {}

(***************************************************************************)
(* C32.  Once monitor has returned its sink, whose first message is "OK",  *)
(* every command executed afterwards, those that return an error too,      *)
(* puts one description on every monitor sink before it changes the        *)
(* keyspace or the broker, and a monitor sink yields the descriptions in   *)
(* the order in which the commands were executed.  A sink is a monitor     *)
(* sink as long as its receiver is held.                                   *)
(***************************************************************************)
MonitorSinks == {vec_senders[i] : i \in DOMAIN vec_senders}

\* execute is called in this step.
Entering == Ready /\ cmd' # Idle

\* The step changes the keyspace or the broker, or gives the response.
Effective ==
    \/ db' # db
    \/ subscribers' # subscribers
    \/ vec_senders' # vec_senders
    \/ resp' \notin {resp, NoResp}
    \/ \E s \in (DOMAIN sinks') \ MonitorSinks : s \notin DOMAIN sinks \/ sinks'[s] # sinks[s]

C32_MonitorsNotifiedFirst ==
    /\ [](\A s \in MonitorSinks : sinks[s] # <<>> /\ Head(sinks[s]) = Str(S_OK))
    /\ [][/\ Entering =>
               /\ \A s \in MonitorSinks \ closed :
                      sinks'[s] = Append(sinks[s], Str(as_str(cmd')))
               /\ ~Effective
          /\ ~Entering => \A s \in MonitorSinks : sinks'[s] = sinks[s]
          /\ Effective => Notified]_vars

\* A command has returned an error and the monitor holds its description,
\* the last of several.
C32_Witness ==
    /\ resp.kind = "Error"
    /\ \E s \in MonitorSinks \ closed :
           /\ Len(sinks[s]) >= 3
           /\ sinks[s][Len(sinks[s])] = Str(as_str(cmd))

(***************************************************************************)
(* C33.  In every reachable state execute returns a response for every     *)
(* command, a normal value, a stream or an error message, and never aborts *)
(* the executor: so for lpop and rpop with count 0 on an empty list, for   *)
(* lset with an index equal to the length of the list, and for lindex with *)
(* any signed index.                                                       *)
(***************************************************************************)
C33_NeverAborts ==
    cmd # Idle => resp.kind \in {"Normal", "Stream", "Error"}

\* Where execute aborts: lpop and rpop with count 0 on an empty list, lset
\* with the index that is the length of the list; every other command of
\* the specification returns a response.
C33_AbortsOfPopAndLset ==
    cmd # Idle =>
        IF /\ cmd.op \in {"lpop", "rpop", "lset"}
           /\ cmd.key \in DOMAIN old.store
           /\ ~expired(old, now, cmd.key)
           /\ old.store[cmd.key].type = "list"
           /\ \/ cmd.op \in {"lpop", "rpop"} /\ cmd.count = 0 /\ old.store[cmd.key].l = <<>>
              \/ cmd.op = "lset" /\ cmd.index = Len(old.store[cmd.key].l)
        THEN resp = Panic
        ELSE resp.kind \in {"Normal", "Stream", "Error"}

\* lindex has answered for an index beyond the list, on either side.
C33_LindexBeyond ==
    /\ cmd.op = "lindex"
    /\ resp.kind = "Normal"
    /\ cmd.key \in DOMAIN old.store /\ old.store[cmd.key].type = "list"
    /\ cmd.index < 0 - Len(old.store[cmd.key].l)

(***************************************************************************)
(* C34.  The validator returns an error, and no command, for every token   *)
(* vector whose number of arguments is not one the command named accepts:  *)
(* for a command that takes a fixed number of arguments, too few and too   *)
(* many are rejected alike, with the message                               *)
(* ERR wrong number of arguments for '<name>' command.                     *)
(***************************************************************************)
\* The number of arguments each command takes.
Arity ==
    [get |-> 1, set |-> 2, getset |-> 2, append |-> 2, incrby |-> 2, decrby |-> 2,
     strlen |-> 1, ttl |-> 1, type |-> 1, llen |-> 1, scard |-> 1, smembers |-> 1,
     dbsize |-> 0, publish |-> 2]

WrongArity ==
    [get |-> "ERR wrong number of arguments for 'get' command",
     set |-> "ERR wrong number of arguments for 'set' command",
     getset |-> "ERR wrong number of arguments for 'getset' command",
     append |-> "ERR wrong number of arguments for 'append' command",
     incrby |-> "ERR wrong number of arguments for 'incrby' command",
     decrby |-> "ERR wrong number of arguments for 'decrby' command",
     strlen |-> "ERR wrong number of arguments for 'strlen' command",
     ttl |-> "ERR wrong number of arguments for 'ttl' command",
     type |-> "ERR wrong number of arguments for 'type' command",
     llen |-> "ERR wrong number of arguments for 'llen' command",
     scard |-> "ERR wrong number of arguments for 'scard' command",
     smembers |-> "ERR wrong number of arguments for 'smembers' command",
     dbsize |-> "ERR wrong number of arguments for 'dbsize' command",
     publish |-> "ERR wrong number of arguments for 'publish' command"]

\* The name of the command the tokens start with, in lower case.
NameOf(params) ==
    CHOOSE name \in DOMAIN Arity :
        params[1] \in {name} \cup (IF name = "get" THEN {"GET"} ELSE {})
                             \cup (IF name = "llen" THEN {"LLen"} ELSE {})

Validated == cmd.op = "generate"

Misnumbered == Validated /\ Len(cmd.params) - 1 # Arity[NameOf(cmd.params)]

C34_WrongArityRejected ==
    Misnumbered => resp.result = Err(WrongArity[NameOf(cmd.params)])

\* What the validator answers to a wrong number of arguments: set, incrby
\* and decrby answer a syntax error; llen, scard and smembers take their
\* first argument and drop those that follow; the other commands answer
\* the message of the claim.
C34_WrongArityButSix ==
    Misnumbered =>
        LET name == NameOf(cmd.params)
        IN  CASE name \in {"set", "incrby", "decrby"} ->
                    resp.result = Err("ERR syntax error")
              [] name \in {"llen", "scard", "smembers"} /\ Len(cmd.params) > 2 ->
                    resp.result = Ok([op |-> name, key |-> cmd.params[2]])
              [] OTHER -> resp.result = Err(WrongArity[name])

\* llen was sent with two arguments.
C34_LlenOfTwo ==
    Validated /\ NameOf(cmd.params) = "llen" /\ Len(cmd.params) = 3

(***************************************************************************)
(* C35.  Every command is atomic with respect to all the others: whatever  *)
(* the clients send and whenever they do, the keyspace, the broker and the *)
(* responses are those of the execution of the commands one at a time, in  *)
(* an order that keeps the order in which each client sent its own; no     *)
(* other command takes effect between the read and the write of a getset.  *)
(***************************************************************************)
NoBroker == [subscribers |-> EmptyMap, sinks |-> <<>>, closed |-> {}, vec_senders |-> <<>>]

\* The commands executed one at a time from keyspace d and broker b: what
\* is left, and the responses in the order of the commands.
RECURSIVE OneAtATime(_, _, _, _)
OneAtATime(d, b, t, commands) ==
    IF commands = <<>> THEN [db |-> d, broker |-> b, resps |-> <<>>]
    ELSE LET r == execute(d, b, t, Head(commands))
             rest == OneAtATime(r.db, r.broker, t, Tail(commands))
         IN  [db |-> rest.db, broker |-> rest.broker, resps |-> <<r.resp>> \o rest.resps]

\* The order in which the executor took the commands.
Order == [i \in 1..Len(adapter.done) |-> adapter.done[i].command]

\* The entries of client c among those of done or of the queue, and what
\* they carry.
OfClient(entries, c) == SelectSeq(entries, LAMBDA e : e.client = c)

CommandsOf(entries, c) ==
    [i \in 1..Len(OfClient(entries, c)) |-> OfClient(entries, c)[i].command]

\* The value a get finds at the key: a keyspace of this specification holds
\* no deadline.
Found(d, key) == IF key \in DOMAIN d.store THEN d.store[key] ELSE Nil

DeadlineOf(d, k) == MapGet(d.ttls, k)

C36_ErrorChangesNothing ==
    resp.kind = "Error" =>
        /\ \A k \in DOMAIN old.store :
               Present(old, now, k) =>
                   /\ Present(db, now, k)
                   /\ db.store[k] = old.store[k]
                   /\ DeadlineOf(db, k) = DeadlineOf(old, k)
        /\ \A k \in DOMAIN db.store : k \in DOMAIN old.store
        /\ subscribers = old_broker.subscribers
        /\ vec_senders = old_broker.vec_senders

\* An error was returned for a key that holds a value and a deadline to come.
C36_Witness ==
    /\ resp.kind = "Error"
    /\ "key" \in DOMAIN cmd
    /\ Present(old, now, cmd.key)
    /\ cmd.key \in DOMAIN old.ttls

(***************************************************************************)
(* C37.  For every amount n of 32 bits without sign and every key that     *)
(* holds the decimal string of an integer v of 32 bits with sign (or is    *)
(* absent, v = 0), incrby and decrby either store the exact v+n (v-n) or   *)
(* return the out-of-range error and leave the key as it was: no wrapped   *)
(* or sign-flipped value is stored and the command does not abort.         *)
(***************************************************************************)
\* The key is absent or holds the decimal string of an i32.
IncrOnIntegerOrAbsent ==
    /\ cmd.op \in {"incrby", "decrby"}
    /\ Present(old, now, cmd.key) =>
           /\ old.store[cmd.key].type = "string"
           /\ parse_i32(old.store[cmd.key].s).some

IncrExact ==
    LET k == cmd.key
        v == IF Present(old, now, k) THEN parse_i32(old.store[k].s).val ELSE 0
    IN  /\ resp.kind = "Normal"
        /\ GetOf(db, now, k) = Text(ExactDecimal(v, IncrAmount, IncrSign))

IncrRefused ==
    LET k == cmd.key
    IN  /\ resp = Error(OUT_OF_RANGE_MSG)
        /\ LiveValue(db, now, k) = LiveValue(old, now, k)
        /\ MapGet(db.ttls, k) = MapGet(old.ttls, k)

C37_ExactOrRefused == IncrOnIntegerOrAbsent => (IncrExact \/ IncrRefused)

\* The command aborts: a build that checks the overflow of the addition.
C37_Aborts == IncrOnIntegerOrAbsent /\ resp = Panic

\* The command stores a value that is not the exact one: a build that wraps.
C37_Wraps == IncrOnIntegerOrAbsent /\ resp.kind = "Normal" /\ ~IncrExact

(***************************************************************************)
(* C38.  Deserialization stops at the first EOF opcode found where a       *)
(* record may begin: the bytes that follow it are ignored and produce no   *)
(* key, and the stream of the single byte EOF decodes to the empty         *)
(* keyspace.                                                               *)
(***************************************************************************)
\* The positions of the stream where an EOF opcode stands in the place of
\* the first opcode of the stream or of a record: what comes before it is
\* decoded whole.
EofBoundaries(s, t) ==
    {i \in 1..Len(s) : s[i] = OP_EOF /\ (i = 1 \/ deserialize(SubSeq(s, 1, i - 1), t).ok)}

Least(S) == CHOOSE i \in S : \A j \in S : i <= j

\* The stream up to its first EOF at such a position, that EOF included.
UpToEof(s, t) == SubSeq(s, 1, Least(EofBoundaries(s, t)))

LoadWithEof ==
    /\ cmd.op = "load"
    /\ fs.some
    /\ EofBoundaries(fs.val, now) # {}

C38_StopsAtEof ==
    LoadWithEof =>
        LET r == load_method(old, now, Some(UpToEof(fs.val, now)))
        IN  /\ db = r.db
            /\ resp = r.resp

\* The same for the EOF that is the first byte of the stream.
C38_StopsAtLeadingEof ==
    (LoadWithEof /\ fs.val[1] = OP_EOF) =>
        /\ resp = Normal(Str(S_Ok))
        /\ db = TtlHashMap_new

\* A stream is loaded whose first byte is EOF and that holds more bytes.
C38_LeadingEof == LoadWithEof /\ fs.val[1] = OP_EOF /\ Len(fs.val) > 1

\* Keys come out of the bytes that follow the EOF.
C38_KeysAfterEof ==
    /\ LoadWithEof
    /\ resp.kind = "Normal"
    /\ load_method(old, now, Some(UpToEof(fs.val, now))).resp.kind = "Normal"
    /\ DOMAIN db.store # DOMAIN load_method(old, now, Some(UpToEof(fs.val, now))).db.store

(***************************************************************************)
(* C39.  rename(src, dst) with src absent or past its deadline stores      *)
(* nothing: dst is neither created nor modified (an absent dst is still    *)
(* absent, a live dst keeps its value and its deadline) and dbsize does    *)
(* not grow.                                                               *)
(***************************************************************************)
RenameOfNothing ==
    /\ cmd.op = "rename"
    /\ ~Present(old, now, cmd.key_origin)

C39_RenameOfNothing ==
    RenameOfNothing =>
        LET dst == cmd.key_destination
        IN  /\ Present(db, now, dst) = Present(old, now, dst)
            /\ LiveValue(db, now, dst) = LiveValue(old, now, dst)
            /\ Present(old, now, dst) => MapGet(db.ttls, dst) = MapGet(old.ttls, dst)
            /\ Cardinality(DOMAIN db.store) <= Cardinality(DOMAIN old.store)

\* The destination holds the text "(nil)" after a rename of nothing.
C39_NilStored ==
    /\ RenameOfNothing
    /\ resp.kind = "Normal"
    /\ LiveValue(db, now, cmd.key_destination) = Str(NIL_TOKEN)

\* dbsize has grown by the rename of a key that was not there.
C39_DbsizeGrown ==
    /\ RenameOfNothing
    /\ Cardinality(DOMAIN db.store) > Cardinality(DOMAIN old.store)

(***************************************************************************)
(* C40.  After any sequence of operations on the keyspace and after        *)
(* deserialize the three maps stay aligned: every key with a deadline has  *)
(* a value, and a key has a last access exactly when it has a value.       *)
(***************************************************************************)
Aligned(d) ==
    /\ DOMAIN d.ttls \subseteq DOMAIN d.store
    /\ DOMAIN d.last_access = DOMAIN d.store

====
